---- MODULE Spec2Model ----
(***************************************************************************)
(* Model of the result-normalization engine of macedo-dehashtool:          *)
(* result_extraction_v2.py (extract_all_fields and its helpers, the hash   *)
(* column detector), the legacy narrow extraction                          *)
(* extract_email_password_data, the API client search (dehashed.py) and    *)
(* the search and cracking steps of main_v2.py.                            *)
(*                                                                         *)
(* Strings are sequences of one-character strings, so that the character   *)
(* operations of the code (replace, re.sub, strip, lower, re.match, split) *)
(* are computed and not assumed.  A JSON value is a record                 *)
(*   [k |-> kind, s |-> characters, sub |-> <<key, value>> pairs]          *)
(* with kind "str", "int", "null", "list" or "dict"; the pairs of a list   *)
(* have the empty key.  A DataFrame is a record                            *)
(*   [columns |-> names, index |-> row labels, rows |-> rows of cells]     *)
(* whose columns are positional, as pandas keeps them: two columns may     *)
(* carry the same name.                                                    *)
(***************************************************************************)
EXTENDS Integers, Sequences, FiniteSets, TLC

VARIABLES pc, op, api_response, df, ret, hash_columns, cracked_results,
          query, max_retries, payload, retry_count, http_response, posts,
          sleeps, search_result, hash_file, tool

\* the variables of search (dehashed.py): its arguments, its locals, the
\* payloads of the calls of requests.post made, the delays slept and what
\* the call returned or raised
searchVars == <<query, max_retries, payload, retry_count, http_response,
                posts, sleeps, search_result>>

\* the variables of perform_hash_cracking (main_v2.py): the temporary file
\* of the hashes and the cracking tool chosen
crackVars == <<hash_file, tool>>

vars == <<pc, op, api_response, df, ret, hash_columns, cracked_results,
          searchVars, crackVars>>

\* no call of search is in progress
NoSearch ==
  /\ query = <<>>
  /\ max_retries = 0
  /\ payload = <<>>
  /\ retry_count = 0
  /\ http_response = <<>>
  /\ posts = <<>>
  /\ sleeps = <<>>
  /\ search_result = [tag |-> "none"]

\* no temporary file of hashes was created
NoFile == [exists |-> FALSE, lines |-> <<>>]

(***************************************************************************)
(* Bounds of the model.                                                    *)
(***************************************************************************)
\* longest batch of records in a response
MaxRecords == 3
\* most rows of a table handed to a helper
MaxRows == 5
\* most values of the column of a threshold table
MaxVals == 11

(***************************************************************************)
(* Characters and strings.                                                 *)
(***************************************************************************)
UpperChars == <<"A","B","C","D","E","F","G","H","I","J","K","L","M",
                "N","O","P","Q","R","S","T","U","V","W","X","Y","Z">>

LowerChars == <<"a","b","c","d","e","f","g","h","i","j","k","l","m",
                "n","o","p","q","r","s","t","u","v","w","x","y","z">>

IsUpper(c) == \E i \in 1..Len(UpperChars) : UpperChars[i] = c

\* str.lower() on one character
LowerChar(c) ==
  IF IsUpper(c)
    THEN LowerChars[CHOOSE i \in 1..Len(UpperChars) : UpperChars[i] = c]
    ELSE c

\* str.lower()
Lower(s) == [i \in 1..Len(s) |-> LowerChar(s[i])]

\* str.replace(old, new) for one-character old and new
Replace(s, old, new) == [i \in 1..Len(s) |-> IF s[i] = old THEN new ELSE s[i]]

\* re.sub(r'_+', '_', s): every run of '_' becomes one '_'
RECURSIVE CollapseUnderscores(_)
CollapseUnderscores(s) ==
  IF Len(s) <= 1 THEN s
  ELSE IF s[1] = "_" /\ s[2] = "_" THEN CollapseUnderscores(Tail(s))
  ELSE <<s[1]>> \o CollapseUnderscores(Tail(s))

RECURSIVE LStrip(_, _)
LStrip(s, chars) ==
  IF s # <<>> /\ s[1] \in chars THEN LStrip(Tail(s), chars) ELSE s

RECURSIVE RStrip(_, _)
RStrip(s, chars) ==
  IF s # <<>> /\ s[Len(s)] \in chars
    THEN RStrip(SubSeq(s, 1, Len(s) - 1), chars)
    ELSE s

\* str.strip(chars)
Strip(s, chars) == RStrip(LStrip(s, chars), chars)

\* the characters str.strip() removes when called without argument
Whitespace == {" ", "\t", "\n", "\r", "\f"}

\* whether pat occurs in s at position i
OccursAt(s, pat, i) ==
  /\ i + Len(pat) - 1 <= Len(s)
  /\ \A j \in 1..Len(pat) : s[i + j - 1] = pat[j]

\* pat in s
Contains(s, pat) == \E i \in 1..(Len(s) + 1) : OccursAt(s, pat, i)

\* a string literal of n copies of c
Rep(c, n) == [i \in 1..n |-> c]

(***************************************************************************)
(* JSON values and table cells.                                            *)
(***************************************************************************)
Null == [k |-> "null", s |-> <<>>, sub |-> <<>>]

Str(s) == [k |-> "str", s |-> s, sub |-> <<>>]

Number(s) == [k |-> "int", s |-> s, sub |-> <<>>]

\* a mapping with the given <<key, value>> pairs, in insertion order
Dict(fields) == [k |-> "dict", s |-> <<>>, sub |-> fields]

\* a list of the given values
List(items) ==
  [k |-> "list", s |-> <<>>,
   sub |-> [i \in 1..Len(items) |-> <<<<>>, items[i]>>]]

\* the elements of a list value
Items(v) == [i \in 1..Len(v.sub) |-> v.sub[i][2]]

\* key in mapping
HasKey(fields, key) == \E i \in 1..Len(fields) : fields[i][1] = key

\* mapping[key]
Get(fields, key) ==
  fields[CHOOSE i \in 1..Len(fields) : fields[i][1] = key][2]

\* pandas isna(): None and NaN are the one absent marker
IsNA(cell) == cell.k = "null"

RECURSIVE JoinStr(_, _)
JoinStr(parts, sep) ==
  IF parts = <<>> THEN <<>>
  ELSE IF Len(parts) = 1 THEN parts[1]
  ELSE parts[1] \o sep \o JoinStr(Tail(parts), sep)

\* str(value), as astype(str) and str(p) compute it
RECURSIVE StrOf(_)
StrOf(v) ==
  CASE v.k = "str" -> v.s
    [] v.k = "int" -> v.s
    [] v.k = "null" -> <<"N","o","n","e">>
    [] v.k = "list" ->
         <<"[">> \o
         JoinStr([i \in 1..Len(v.sub) |->
                    IF v.sub[i][2].k = "str"
                      THEN <<"'">> \o v.sub[i][2].s \o <<"'">>
                      ELSE StrOf(v.sub[i][2])], <<",", " ">>)
         \o <<"]">>
    [] OTHER -> <<"{", "}">>

(***************************************************************************)
(* DataFrames.                                                             *)
(***************************************************************************)
\* pd.DataFrame()
EmptyDF == [columns |-> <<>>, index |-> <<>>, rows |-> <<>>]

\* len(df)
NRows(t) == Len(t.index)

\* df.empty: some axis has length 0
IsEmpty(t) == Len(t.index) = 0 \/ Len(t.columns) = 0

\* column in df.columns
HasColumn(t, name) == \E j \in 1..Len(t.columns) : t.columns[j] = name

\* the positions of the columns called name
Positions(t, name) == {j \in 1..Len(t.columns) : t.columns[j] = name}

\* the members of a set of positions, in increasing order
Ascending(S) ==
  [i \in 1..Cardinality(S) |->
     CHOOSE m \in S : Cardinality({n \in S : n < m}) = i - 1]

\* the rows at the given positions, each keeping its index label
TakeRows(t, S) ==
  LET keep == Ascending(S)
  IN  [columns |-> t.columns,
       index |-> [i \in 1..Len(keep) |-> t.index[keep[i]]],
       rows |-> [i \in 1..Len(keep) |-> t.rows[keep[i]]]]

\* df.dropna(how='all')
DropNaAll(t) ==
  TakeRows(t, {i \in 1..NRows(t) :
                 \E j \in 1..Len(t.columns) : ~IsNA(t.rows[i][j])})

\* whether hashing a cell raises TypeError (unhashable type)
Unhashable(cell) == cell.k \in {"list", "dict"}

\* whether df.drop_duplicates() raises: factorizing a column of a
\* non-empty frame hashes each of its cells
DropDuplicatesRaises(t) ==
  /\ ~IsEmpty(t)
  /\ \E i \in 1..NRows(t) : \E j \in 1..Len(t.columns) :
       Unhashable(t.rows[i][j])

\* df.drop_duplicates(): the first row of each group of equal rows
DropDuplicates(t) ==
  TakeRows(t, {i \in 1..NRows(t) :
                 \A h \in 1..(i - 1) : t.rows[h] # t.rows[i]})

\* df.reset_index(drop=True)
ResetIndex(t) == [t EXCEPT !.index = [i \in 1..NRows(t) |-> i - 1]]

\* the outcome of a call: a table, or the exception raised; same tells
\* whether the table returned is the very object that was passed in
Ok(t) == [tag |-> "ok", df |-> t, cols |-> <<>>, same |-> FALSE]

\* `return df` of the parameter itself
OkSame(t) == [tag |-> "ok", df |-> t, cols |-> <<>>, same |-> TRUE]

Raise(e) == [tag |-> e, df |-> EmptyDF, cols |-> <<>>, same |-> FALSE]

\* the outcome of a call that returns a list of column names
OkCols(c) == [tag |-> "ok", df |-> EmptyDF, cols |-> c, same |-> FALSE]

\* no frame: the None of a step that gave no table
NoFrame == EmptyDF

NoResult == [tag |-> "none", df |-> EmptyDF, cols |-> <<>>, same |-> FALSE]

(***************************************************************************)
(* _sanitize_column_names                                                  *)
(***************************************************************************)
\* the sanitization without its re.sub(r'_+', '_', ...) step
SanitizeNameNoCollapse(col) ==
  Lower(Strip(Replace(Replace(col, ".", "_"), " ", "_"), {"_"}))

\* the sanitization with its strip('_') step done first
SanitizeNameStripFirst(col) ==
  Lower(CollapseUnderscores(Replace(Replace(Strip(col, {"_"}), ".", "_"),
                                    " ", "_")))

SanitizeName(col) ==
  Lower(Strip(CollapseUnderscores(Replace(Replace(col, ".", "_"), " ", "_")),
              {"_"}))

SanitizeColumnNames(t) ==
  [t EXCEPT !.columns = [j \in 1..Len(t.columns) |-> SanitizeName(t.columns[j])]]

\* _sanitize_column_names without df.copy(): the new names are assigned
\* to the columns of the table passed in
SanitizeColumnNamesInPlace(t) == SanitizeColumnNames(t)

\* the table passed to _sanitize_column_names, after the call: line 40
\* copies it and line 57 assigns the new names to the copy
SanitizeColumnNamesTable(t) == t

(***************************************************************************)
(* _ensure_common_columns                                                  *)
(***************************************************************************)
\* df[column] = None
AddColumn(t, name) ==
  [columns |-> Append(t.columns, name),
   index |-> t.index,
   rows |-> [i \in 1..Len(t.rows) |-> Append(t.rows[i], Null)]]

\* _ensure_common_columns without its "not in df_copy.columns" test: the
\* column is assigned None whether it exists or not
RECURSIVE EnsureCommonColumnsOverwrite(_, _)
EnsureCommonColumnsOverwrite(t, common_cols) ==
  IF common_cols = <<>> THEN t
  ELSE EnsureCommonColumnsOverwrite(
         IF HasColumn(t, common_cols[1])
           THEN [t EXCEPT !.rows =
                   [i \in 1..Len(t.rows) |->
                      [j \in 1..Len(t.columns) |->
                         IF t.columns[j] = common_cols[1] THEN Null
                         ELSE t.rows[i][j]]]]
           ELSE AddColumn(t, common_cols[1]),
         Tail(common_cols))

RECURSIVE EnsureCommonColumns(_, _)
EnsureCommonColumns(t, common_cols) ==
  IF common_cols = <<>> THEN t
  ELSE EnsureCommonColumns(
         IF HasColumn(t, common_cols[1]) THEN t ELSE AddColumn(t, common_cols[1]),
         Tail(common_cols))

\* the table passed to _ensure_common_columns, after the call: line 72
\* copies it and the columns are added to the copy
EnsureCommonColumnsTable(t) == t

(***************************************************************************)
(* _intelligent_cleanup                                                    *)
(***************************************************************************)
\* df.dropna(how='any')
DropNaAny(t) ==
  TakeRows(t, {i \in 1..NRows(t) :
                 \A j \in 1..Len(t.columns) : ~IsNA(t.rows[i][j])})

\* _intelligent_cleanup with dropna() left at its default how='any'
IntelligentCleanupDropAny(t) ==
  IF IsEmpty(t) THEN OkSame(t)
  ELSE LET kept == DropNaAny(t)
       IN  IF DropDuplicatesRaises(kept) THEN Raise("TypeError")
           ELSE Ok(ResetIndex(DropDuplicates(kept)))

IntelligentCleanup(t) ==
  IF IsEmpty(t) THEN OkSame(t)
  ELSE LET kept == DropNaAll(t)
       IN  IF DropDuplicatesRaises(kept) THEN Raise("TypeError")
           ELSE Ok(ResetIndex(DropDuplicates(kept)))

\* the table passed to _intelligent_cleanup, after the call: it is returned
\* as it is, or copied at line 145 and the copy is cleaned
IntelligentCleanupTable(t) == t

(***************************************************************************)
(* pd.json_normalize(entries), as extract_all_fields calls it: each record *)
(* is flattened to an ordered mapping from dotted key path to terminal     *)
(* value, and the frame has the union of the paths, in first-seen order.   *)
(***************************************************************************)
\* mapping[key] = value on an insertion-ordered mapping
Put(fields, key, value) ==
  IF HasKey(fields, key)
    THEN [i \in 1..Len(fields) |->
            IF fields[i][1] = key THEN <<key, value>> ELSE fields[i]]
    ELSE Append(fields, <<key, value>>)

RECURSIVE PutAll(_, _)
PutAll(fields, pairs) ==
  IF pairs = <<>> THEN fields
  ELSE PutAll(Put(fields, pairs[1][1], pairs[1][2]), Tail(pairs))

\* the <<path, value>> assignments of the walk of one value, in order:
\* a mapping is walked key by key, anything else is terminal
RECURSIVE NormaliseJson(_, _)
NormaliseJson(value, key_string) ==
  IF value.k = "dict"
    THEN LET RECURSIVE Walk(_)
             Walk(fs) ==
               IF fs = <<>> THEN <<>>
               ELSE NormaliseJson(fs[1][2],
                                  IF key_string = <<>> THEN fs[1][1]
                                  ELSE key_string \o <<".">> \o fs[1][1])
                    \o Walk(Tail(fs))
         IN  Walk(value.sub)
    ELSE << <<key_string, value>> >>

\* a flattening that does not walk nested mappings: only the top-level
\* terminal values of the record become columns
FlattenRecordTopOnly(rec) ==
  IF rec.k # "dict" THEN <<>>
  ELSE SelectSeq(rec.sub, LAMBDA f : f[2].k # "dict")

\* one record flattened: its top-level terminal values first, then the
\* walk of its nested mappings; an element that is no mapping gives {}
FlattenRecord(rec) ==
  IF rec.k # "dict" THEN <<>>
  ELSE LET top == SelectSeq(rec.sub, LAMBDA f : f[2].k # "dict")
           nested == SelectSeq(rec.sub, LAMBDA f : f[2].k = "dict")
       IN  PutAll(top, NormaliseJson(Dict(nested), <<>>))

\* the keys of the flattened records, in first-seen order
RECURSIVE UnionKeys(_, _)
UnionKeys(flats, acc) ==
  IF flats = <<>> THEN acc
  ELSE LET RECURSIVE AddKeys(_, _)
           AddKeys(fs, a) ==
             IF fs = <<>> THEN a
             ELSE AddKeys(Tail(fs),
                          IF \E i \in 1..Len(a) : a[i] = fs[1][1]
                            THEN a ELSE Append(a, fs[1][1]))
       IN  UnionKeys(Tail(flats), AddKeys(flats[1], acc))

\* whether building the frame of pd.json_normalize(entries), or the
\* col.replace of _sanitize_column_names on its labels, raises
\* AttributeError: an element that is a list stays a list among the
\* flattened records; after a first record that is a mapping the frame
\* constructor asks it for keys(), and after a first record that is a list
\* the records are taken as rows of cells under the labels 0, 1, ..., which
\* have no replace
ListElementRaises(entries) ==
  /\ \E i \in 1..Len(entries) : entries[i].k = "list"
  /\ \/ entries[1].k # "list"
     \/ \E i \in 1..Len(entries) :
          \/ entries[i].k = "list" /\ entries[i].sub # <<>>
          \/ FlattenRecord(entries[i]) # <<>>

JsonNormalize(entries) ==
  LET flats == [i \in 1..Len(entries) |-> FlattenRecord(entries[i])]
      columns == UnionKeys(flats, <<>>)
  IN  [columns |-> columns,
       index |-> [i \in 1..Len(entries) |-> i - 1],
       rows |-> [i \in 1..Len(entries) |->
                   [j \in 1..Len(columns) |->
                      IF HasKey(flats[i], columns[j])
                        THEN Get(flats[i], columns[j]) ELSE Null]]]

(***************************************************************************)
(* extract_all_fields                                                      *)
(***************************************************************************)
KEntries == <<"e","n","t","r","i","e","s">>

KEmail == <<"e","m","a","i","l">>

KPassword == <<"p","a","s","s","w","o","r","d">>

CommonCols ==
  << KEmail, KPassword, <<"u","s","e","r","n","a","m","e">>,
     <<"d","o","m","a","i","n">>, <<"i","d">>, <<"n","a","m","e">>,
     <<"p","h","o","n","e">>, <<"a","d","d","r","e","s","s">> >>

\* extract_all_fields without its isinstance(entries, list) check: entries
\* of another type is taken for an empty batch
ExtractAllFieldsUnchecked(response) ==
  IF ~HasKey(response, KEntries) THEN Raise("KeyError")
  ELSE LET entries == Get(response, KEntries)
       IN  IF entries.k # "list" \/ Items(entries) = <<>> THEN Ok(EmptyDF)
           ELSE IF ListElementRaises(Items(entries))
             THEN Raise("AttributeError")
           ELSE IntelligentCleanup(
                  EnsureCommonColumns(
                    SanitizeColumnNames(JsonNormalize(Items(entries))),
                    CommonCols))

ExtractAllFields(response) ==
  IF ~HasKey(response, KEntries) THEN Raise("KeyError")
  ELSE LET entries == Get(response, KEntries)
       IN  IF entries.k # "list" THEN Raise("ValueError")
           ELSE IF Items(entries) = <<>> THEN Ok(EmptyDF)
           ELSE IF ListElementRaises(Items(entries))
             THEN Raise("AttributeError")
           ELSE IntelligentCleanup(
                  EnsureCommonColumns(
                    SanitizeColumnNames(JsonNormalize(Items(entries))),
                    CommonCols))

\* the response passed to extract_all_fields, after the call: it is read
\* at lines 170-173 and pd.json_normalize builds new records
ExtractAllFieldsResponse(response) == response

(***************************************************************************)
(* _detect_hash_columns                                                    *)
(***************************************************************************)
\* hash_patterns: r'.*hash.*', r'.*md5.*', ... as the substrings they hold
HashPatterns ==
  << <<"h","a","s","h">>, <<"m","d","5">>, <<"s","h","a">>,
     <<"b","c","r","y","p","t">>, <<"s","c","r","y","p","t">>,
     <<"p","b","k","d","f","2">>, <<"n","t","l","m">>, <<"l","m">>,
     <<"c","r","y","p","t">> >>

\* re.match(r'.*pat.*', s): pat occurs in s, and what precedes it is
\* matched by '.*', which does not match a newline
ReMatchAround(pat, s) ==
  \E i \in 1..(Len(s) + 1) :
    /\ OccursAt(s, pat, i)
    /\ \A j \in 1..(i - 1) : s[j] # "\n"

\* the loop over hash_patterns
NameMatches(column) ==
  \E p \in 1..Len(HashPatterns) : ReMatchAround(HashPatterns[p], Lower(column))

HexChars ==
  {"0","1","2","3","4","5","6","7","8","9",
   "a","b","c","d","e","f","A","B","C","D","E","F"}

AllHex(s) == \A i \in 1..Len(s) : s[i] \in HexChars

\* the least number of characters of r'^[a-fA-F0-9]{16,}$'
MinHexRun == 16

\* re.match(r'^[a-fA-F0-9]{16,}$', value): '$' matches at the end and
\* before a newline that ends the string
ReMatchHex(value) ==
  \/ AllHex(value) /\ Len(value) >= MinHexRun
  \/ /\ Len(value) >= 1
     /\ value[Len(value)] = "\n"
     /\ AllHex(SubSeq(value, 1, Len(value) - 1))
     /\ Len(value) - 1 >= MinHexRun

HashLengths == {32, 40, 56, 64, 96, 128}

\* the test of one sampled value
LooksLikeHash(value) == ReMatchHex(value) /\ Len(value) \in HashLengths

\* head(10)
SampleSize == 10

\* the numerator and denominator of the 0.7 of the threshold
ThresholdNum == 7

ThresholdDen == 10

FirstN(s, n) == SubSeq(s, 1, IF Len(s) < n THEN Len(s) ELSE n)

\* df[column].dropna().astype(str).head(10) when one column has the name:
\* a Series of the strings of its first non-absent cells
SampleValues(t, j) ==
  LET present == Ascending({i \in 1..NRows(t) : ~IsNA(t.rows[i][j])})
  IN  FirstN([i \in 1..Len(present) |-> StrOf(t.rows[present[i]][j])],
             SampleSize)

\* hex_pattern_count >= len(sample_values) * 0.7
MeetsThreshold(count, n) == count * ThresholdDen >= n * ThresholdNum

\* the data check without its `if len(sample_values) > 0`
SeriesLooksHashedUnguarded(t, j) ==
  LET sample_values == SampleValues(t, j)
      hex_pattern_count ==
        Cardinality({i \in 1..Len(sample_values) :
                       LooksLikeHash(sample_values[i])})
  IN  /\ NRows(t) > 0
      /\ MeetsThreshold(hex_pattern_count, Len(sample_values))

\* the data check when df[column] is a Series
SeriesLooksHashed(t, j) ==
  LET sample_values == SampleValues(t, j)
      hex_pattern_count ==
        Cardinality({i \in 1..Len(sample_values) :
                       LooksLikeHash(sample_values[i])})
  IN  /\ NRows(t) > 0
      /\ Len(sample_values) > 0
      /\ MeetsThreshold(hex_pattern_count, Len(sample_values))

\* the data check when several columns have the name: df[column] is a
\* frame, dropna() drops its rows with any absent cell, len() counts its
\* rows and the for loop iterates over its column labels
FrameLooksHashed(t, column) ==
  LET cols == Positions(t, column)
      full == {i \in 1..NRows(t) : \A j \in cols : ~IsNA(t.rows[i][j])}
      n == IF Cardinality(full) < SampleSize THEN Cardinality(full)
           ELSE SampleSize
      hex_pattern_count == IF LooksLikeHash(column) THEN Cardinality(cols) ELSE 0
  IN  /\ NRows(t) > 0
      /\ n > 0
      /\ MeetsThreshold(hex_pattern_count, n)

\* the body of the loop over df.columns, for the column at position j
DetectStep(t, j, hash_cols) ==
  LET column == t.columns[j]
      named == IF NameMatches(column) THEN Append(hash_cols, column)
               ELSE hash_cols
  IN  IF \E h \in 1..Len(named) : named[h] = column THEN named
      ELSE IF Cardinality(Positions(t, column)) = 1
             THEN IF SeriesLooksHashed(t, j) THEN Append(named, column)
                  ELSE named
      ELSE IF FrameLooksHashed(t, column) THEN Append(named, column)
      ELSE named

RECURSIVE DetectFrom(_, _, _)
DetectFrom(t, j, hash_cols) ==
  IF j > Len(t.columns) THEN hash_cols
  ELSE DetectFrom(t, j + 1, DetectStep(t, j, hash_cols))

DetectHashColumns(t) == DetectFrom(t, 1, <<>>)

\* _detect_hash_columns with the rows with absent cells dropped in place
DetectHashColumnsDropsInPlace(t) == DropNaAny(t)

\* the table passed to _detect_hash_columns, after the call: the function
\* reads df.columns and df[column], and dropna(), astype(str) and head(10)
\* each return a new object
DetectHashColumnsTable(t) == t

(***************************************************************************)
(* list_hash_columns                                                       *)
(***************************************************************************)
\* df[col].dropna().head(3).tolist() of the display loop: when several
\* columns have the name df[col] is a frame, which has no tolist
ListHashColumns(t) ==
  LET hash_cols == DetectHashColumns(t)
  IN  IF \E h \in 1..Len(hash_cols) :
           Cardinality(Positions(t, hash_cols[h])) > 1
        THEN Raise("AttributeError")
      ELSE OkCols(hash_cols)

\* the table passed to list_hash_columns, after the call
ListHashColumnsTable(t) == DetectHashColumnsTable(t)

(***************************************************************************)
(* extract_email_password_data (result_extraction.py, and its copy in      *)
(* result_extraction_v2.py)                                                *)
(***************************************************************************)
\* str.split(sep) for a one-character sep
RECURSIVE Split(_, _)
Split(s, sep) ==
  IF \A i \in 1..Len(s) : s[i] # sep THEN <<s>>
  ELSE LET at == CHOOSE i \in 1..Len(s) :
                   s[i] = sep /\ \A h \in 1..(i - 1) : s[h] # sep
       IN  <<SubSeq(s, 1, at - 1)>> \o Split(SubSeq(s, at + 1, Len(s)), sep)

\* bool(value)
Truthy(v) ==
  CASE v.k = "str" -> v.s # <<>>
    [] v.k = "int" -> v.s # <<"0">>
    [] v.k = "null" -> FALSE
    [] OTHER -> v.sub # <<>>

\* one appended {'email': ..., 'password': ...}
Pair(email, password) == <<Str(email), Str(password)>>

\* the rows appended for each email of the entry, paired with password
PairWithEmails(entry, password) ==
  LET email_data == Get(entry.sub, KEmail)
      emails == IF email_data.k = "list" THEN Items(email_data)
                ELSE <<email_data>>
      truthy == SelectSeq(emails, Truthy)
  IN  [i \in 1..Len(truthy) |->
         Pair(Strip(StrOf(truthy[i]), Whitespace), Strip(password, Whitespace))]

\* the rows of one element p, its parts not stripped
ListElementRowsUntrimmed(entry, p) ==
  IF Contains(StrOf(p), <<";">>)
    THEN LET email_pass == Split(StrOf(p), ";")
         IN  IF Len(email_pass) = 2
               THEN << Pair(email_pass[1], email_pass[2]) >>
               ELSE <<>>
  ELSE IF HasKey(entry.sub, KEmail) THEN PairWithEmails(entry, StrOf(p))
  ELSE <<>>

\* the rows appended for one element p of a password list
\* the rows of one element p when an element that does not split into two
\* parts is treated like an element without ';'
ListElementRowsPairUnsplit(entry, p) ==
  IF Contains(StrOf(p), <<";">>) /\ Len(Split(StrOf(p), ";")) = 2
    THEN << Pair(Strip(Split(StrOf(p), ";")[1], Whitespace),
                 Strip(Split(StrOf(p), ";")[2], Whitespace)) >>
  ELSE IF HasKey(entry.sub, KEmail) THEN PairWithEmails(entry, StrOf(p))
  ELSE <<>>

ListElementRows(entry, p) ==
  IF Contains(StrOf(p), <<";">>)
    THEN LET email_pass == Split(StrOf(p), ";")
         IN  IF Len(email_pass) = 2
               THEN << Pair(Strip(email_pass[1], Whitespace),
                            Strip(email_pass[2], Whitespace)) >>
               ELSE <<>>
  ELSE IF HasKey(entry.sub, KEmail) THEN PairWithEmails(entry, StrOf(p))
  ELSE <<>>

RECURSIVE ListRows(_, _)
ListRows(entry, ps) ==
  IF ps = <<>> THEN <<>>
  ELSE ListElementRows(entry, ps[1]) \o ListRows(entry, Tail(ps))

\* whether "'password' in entry" or "entry['password']" raises TypeError
\* for an element of entries that is no mapping
EntryRaises(entry) ==
  CASE entry.k = "dict" -> FALSE
    [] entry.k = "str" -> Contains(entry.s, KPassword)
    [] entry.k = "list" ->
         \E i \in 1..Len(entry.sub) : entry.sub[i][2] = Str(KPassword)
    [] OTHER -> TRUE

\* the rows one pass of the loop over entries appends
EntryRows(entry) ==
  IF entry.k # "dict" \/ ~HasKey(entry.sub, KPassword) THEN <<>>
  ELSE LET password_data == Get(entry.sub, KPassword)
       IN  IF password_data.k = "list"
             THEN ListRows(entry, Items(password_data))
           ELSE IF password_data.k = "str" /\ HasKey(entry.sub, KEmail)
             THEN PairWithEmails(entry, StrOf(password_data))
           ELSE <<>>

RECURSIVE AllEntryRows(_)
AllEntryRows(entries) ==
  IF entries = <<>> THEN <<>>
  ELSE EntryRows(entries[1]) \o AllEntryRows(Tail(entries))

\* pd.DataFrame(extracted_data)
PairFrame(rows) ==
  [columns |-> IF rows = <<>> THEN <<>> ELSE <<KEmail, KPassword>>,
   index |-> [i \in 1..Len(rows) |-> i - 1],
   rows |-> rows]

\* the rows whose email and password are non-empty after strip()
NonBlank(t) ==
  TakeRows(t, {i \in 1..NRows(t) :
                 /\ Strip(t.rows[i][1].s, Whitespace) # <<>>
                 /\ Strip(t.rows[i][2].s, Whitespace) # <<>>})

ExtractEmailPasswordData(response) ==
  IF ~HasKey(response, KEntries) THEN Raise("KeyError")
  ELSE LET entries == Get(response, KEntries)
       IN  IF entries.k # "list" THEN Raise("ValueError")
           ELSE IF \E i \in 1..Len(entries.sub) : EntryRaises(entries.sub[i][2])
             THEN Raise("TypeError")
           ELSE LET t == PairFrame(AllEntryRows(Items(entries)))
                IN  IF IsEmpty(t)
                      THEN Ok([columns |-> <<KEmail, KPassword>>,
                               index |-> <<>>, rows |-> <<>>])
                      ELSE Ok(ResetIndex(NonBlank(DropDuplicates(t))))

\* the response passed to extract_email_password_data, after the call: the
\* loop reads the entries and appends to extracted_data
ExtractEmailPasswordDataResponse(response) == response

(***************************************************************************)
(* The inputs of the calls: responses of the search API.                   *)
(***************************************************************************)
KSuccess == <<"s","u","c","c","e","s","s">>

KNested == <<"n","e","s","t","e","d">>

KField == <<"f","i","e","l","d">>

KHashMd5 == <<"h","a","s","h","_","m","d","5">>

KPhone == <<"p","h","o","n","e">>

KName == <<"n","a","m","e">>

KDottedName == <<"u","s","e","r",".","p","r","o","f","i","l","e",".","n","a","m","e">>

KSpacedName == <<"u","s","e","r"," ","p","r","o","f","i","l","e"," ","n","a","m","e">>

KUpperEmail == <<"E","m","a","i","l">>

KMeta == <<"m","e","t","a">>

KSrc == <<"s","r","c">>

KBreach == <<"b","r","e","a","c","h">>

KDottedAB == <<"a",".","b">>

KA == <<"a">>

KB == <<"b">>

\* the first record of scenario 1 of the specification: a nested mapping
RecNested ==
  Dict(<< <<KEmail, Str(<<"a">>)>>, <<KPassword, Str(<<"p">>)>>,
          <<KNested, Dict(<< <<KField, Str(<<"v">>)>> >>)>> >>)

\* the second record of scenario 1: a hash field
RecHash == Dict(<< <<KEmail, Str(<<"b">>)>>, <<KHashMd5, Str(<<"5","d","4","1">>)>> >>)

\* a record with no field
RecEmpty == Dict(<<>>)

\* a record whose every value is null
RecNulls == Dict(<< <<KEmail, Null>>, <<KPhone, Null>> >>)

\* an identifier with no secret
RecEmailOnly == Dict(<< <<KEmail, Str(<<"a">>)>> >>)

\* a key with dots (test_enhanced_extraction)
RecDotted == Dict(<< <<KDottedName, Str(<<"J">>)>> >>)

\* a key with spaces (test_enhanced_extraction)
RecSpaced == Dict(<< <<KSpacedName, Str(<<"K">>)>> >>)

\* a list-valued secret
RecList ==
  Dict(<< <<KEmail, Str(<<"c">>)>>,
          <<KPassword, List(<< Str(<<"x",";","y">>), Str(<<"q">>) >>)>> >>)

\* an upper-case key and three levels of nesting
RecDeep ==
  Dict(<< <<KUpperEmail, Str(<<"E">>)>>,
          <<KMeta, Dict(<< <<KSrc, Dict(<< <<KBreach, Str(<<"B">>)>> >>)>> >>)>> >>)

\* a dotted key and the nested path that flattens to the same key
RecClash ==
  Dict(<< <<KDottedAB, Str(<<"x">>)>>,
          <<KA, Dict(<< <<KB, Str(<<"y">>)>> >>)>> >>)

\* an empty string, which is a value
RecBlank == Dict(<< <<KName, Str(<<>>)>> >>)

RecordPool ==
  {RecNested, RecHash, RecEmpty, RecNulls, RecEmailOnly, RecDotted, RecSpaced,
   RecList, RecDeep, RecClash, RecBlank}

\* every batch of at most MaxRecords records of the pool
Batches == UNION {[1..n -> RecordPool] : n \in 0..MaxRecords}

\* elements of 'entries' that are no mapping: strings, a number, null, lists
ElementPool ==
  {Str(<<"x">>), Str(KPassword), Number(<<"5">>), Null,
   List(<<Str(<<"q">>)>>), List(<<>>)}

\* most elements of a batch with elements that are no mapping
MaxElements == 2

\* batches in which some element is no mapping
MixedBatches ==
  {b \in UNION {[1..n -> ElementPool \cup {RecNested, RecHash}] :
                  n \in 1..MaxElements} :
     \E i \in 1..Len(b) : b[i] \in ElementPool}

Responses ==
  {<<>>,
   << <<KSuccess, Str(<<"1">>)>> >>,
   << <<KEntries, Str(<<"n","o","t","_","a","_","l","i","s","t">>)>> >>,
   << <<KEntries, Null>> >>,
   << <<KEntries, RecEmailOnly>> >>}
  \cup {<< <<KSuccess, Str(<<"1">>)>>, <<KEntries, List(b)>> >> : b \in Batches}
  \cup {<< <<KEntries, List(b)>> >> : b \in MixedBatches}

(***************************************************************************)
(* The calls.  pc is "ready" before the call and "done" after it, op names *)
(* the function called, ret is what it returned or raised.                 *)
(***************************************************************************)
TypeOK ==
  /\ pc \in {"ready", "done", "again", "extracted", "classified", "cracked",
            "merged", "returned", "raised", "loop", "confirm"}
  /\ op \in {"none", "extract_all_fields", "extract_email_password_data",
             "_sanitize_column_names", "_ensure_common_columns",
             "_intelligent_cleanup", "_detect_hash_columns",
             "list_hash_columns", "perform_api_search", "search",
             "perform_hash_cracking"}

Init ==
  /\ pc = "ready"
  /\ op = "none"
  /\ api_response \in Responses
  /\ df = EmptyDF
  /\ ret = NoResult
  /\ hash_columns = <<>>
  /\ cracked_results = NoFrame
  /\ NoSearch
  /\ hash_file = NoFile
  /\ tool = <<>>

CallExtractAllFields ==
  /\ pc = "ready"
  /\ pc' = "done"
  /\ op' = "extract_all_fields"
  /\ ret' = ExtractAllFields(api_response)
  /\ api_response' = ExtractAllFieldsResponse(api_response)
  /\ UNCHANGED <<df, hash_columns, cracked_results>>
  /\ UNCHANGED <<searchVars, crackVars>>

CallExtractEmailPasswordData ==
  /\ pc = "ready"
  /\ pc' = "done"
  /\ op' = "extract_email_password_data"
  /\ ret' = ExtractEmailPasswordData(api_response)
  /\ api_response' = ExtractEmailPasswordDataResponse(api_response)
  /\ UNCHANGED <<df, hash_columns, cracked_results>>
  /\ UNCHANGED <<searchVars, crackVars>>

Next == CallExtractAllFields \/ CallExtractEmailPasswordData

Spec == Init /\ [][Next]_vars

(***************************************************************************)
(* Records for the narrow view: scalar and list identifiers and secrets,   *)
(* blank and absent ones, and 'identifier;secret' elements.                *)
(***************************************************************************)
SA == Str(<<"a">>)

SB == Str(<<"b">>)

SP == Str(<<"p">>)

SQ == Str(<<"q">>)

SBlank == Str(<<" ", " ">>)

\* 'user@x.com;secretpw'
SUserSecret == Str(<<"u","s","e","r","@","x",".","c","o","m",";","s","e","c","r","e","t","p","w">>)

\* 'a;b;c'
SThreeParts == Str(<<"a", ";", "b", ";", "c">>)

\* 'p;q'
SPairString == Str(<<"p", ";", "q">>)

NarrowPool ==
  {Dict(<< <<KEmail, SA>>, <<KPassword, SP>> >>),
   Dict(<< <<KEmail, Str(<<" ", "a", "\t">>)>>, <<KPassword, Str(<<"p", " ">>)>> >>),
   Dict(<< <<KEmail, Null>>, <<KPassword, SP>> >>),
   Dict(<< <<KEmail, SA>>, <<KPassword, Null>> >>),
   Dict(<< <<KEmail, SB>>, <<KPassword, Str(<<>>)>> >>),
   Dict(<< <<KEmail, SBlank>>, <<KPassword, SQ>> >>),
   Dict(<< <<KEmail, SB>>, <<KPassword, Number(<<"5">>)>> >>),
   Dict(<< <<KEmail, SA>> >>),
   Dict(<< <<KPassword, SP>> >>),
   Dict(<< <<KEmail, List(<<SA, SB>>)>>, <<KPassword, List(<<SP, SQ>>)>> >>),
   Dict(<< <<KEmail, List(<<SB>>)>>, <<KPassword, List(<<SQ>>)>> >>),
   Dict(<< <<KEmail, List(<<SB, Null, Str(<<>>)>>)>>, <<KPassword, SQ>> >>),
   Dict(<< <<KPassword, List(<<SUserSecret>>)>> >>),
   Dict(<< <<KEmail, SB>>,
           <<KPassword, List(<<Str(<<" ", "a", " ", ";", " ", "q", " ">>), SP>>)>> >>),
   Dict(<< <<KPassword, List(<<Str(<<";", "p">>), Str(<<"a", ";">>),
                                Str(<<"a", ";", "b", ";", "c">>),
                                Str(<<" ", ";", " ">>)>>)>> >>),
   Dict(<< <<KEmail, SA>>, <<KPassword, List(<<SP, SBlank, SP>>)>> >>),
   Dict(<< <<KEmail, SA>>, <<KPassword, List(<<Null>>)>> >>),
   Dict(<< <<KPassword, List(<<SQ>>)>> >>),
   Dict(<< <<KEmail, SA>>, <<KPassword, List(<<SThreeParts>>)>> >>),
   Dict(<< <<KEmail, SB>>, <<KPassword, SPairString>> >>)}

\* most records of a batch for the narrow view
MaxNarrow == 2

NarrowResponses ==
  {<< <<KEntries, List(b)>> >> :
     b \in UNION {[1..n -> NarrowPool] : n \in 0..MaxNarrow}}

InitNarrow ==
  /\ pc = "ready"
  /\ op = "none"
  /\ api_response \in NarrowResponses
  /\ df = EmptyDF
  /\ ret = NoResult
  /\ hash_columns = <<>>
  /\ cracked_results = NoFrame
  /\ NoSearch
  /\ hash_file = NoFile
  /\ tool = <<>>

NextNarrow == CallExtractEmailPasswordData

SpecNarrow == InitNarrow /\ [][NextNarrow]_vars

(***************************************************************************)
(* The inputs of the calls: tables handed to the helpers.                  *)
(***************************************************************************)
NAddressInfo == <<"a","d","d","r","e","s","s"," ","i","n","f","o">>

NEmailAddress == <<"e","m","a","i","l","_","_","a","d","d","r","e","s","s">>

NUpperCase == <<"U","P","P","E","R","_","C","A","S","E">>

NPadded == <<"_","x","_">>

NDot == <<".">>

NMixed == <<"a","."," ","_","B">>

NLead == <<" ","L","e","a","d">>

NTab == <<"x","\t","y">>

\* column names: those of test_column_sanitization and of
\* test_enhanced_extraction, and names with separators at either end
NamePool ==
  {KDottedName, KSpacedName, NAddressInfo, NEmailAddress, NUpperCase,
   NPadded, NDot, NMixed, NLead, NTab, KEmail, <<>>}

\* a table of one row with the given column names
OneRow(columns) ==
  [columns |-> columns,
   index |-> <<0>>,
   rows |-> << [j \in 1..Len(columns) |-> Str(<<"v">>)] >>]

\* most columns of a table of NameTables
MaxCols == 2

NameTables == {OneRow(c) : c \in UNION {[1..n -> NamePool] : n \in 1..MaxCols}}

\* rows of an (email, password) table: those of test_intelligent_cleanup
RowPool ==
  {<<Str(<<"a">>), Str(<<"p">>)>>,
   <<Str(<<"b">>), Str(<<"q">>)>>,
   <<Null, Null>>,
   <<Str(<<>>), Null>>}

\* the default RangeIndex, or the labels a filtered frame is left with
IndexOf(n, gapped) == [i \in 1..n |-> IF gapped THEN 2 * i + 1 ELSE i - 1]

RowTables ==
  {[columns |-> <<KEmail, KPassword>>, index |-> IndexOf(Len(r), g), rows |-> r] :
     r \in UNION {[1..n -> RowPool] : n \in 0..MaxRows}, g \in BOOLEAN}

\* frames with rows and no column, and frames with list-valued cells
OddTables ==
  {[columns |-> <<>>, index |-> IndexOf(n, g), rows |-> [i \in 1..n |-> <<>>]] :
     n \in 1..2, g \in BOOLEAN}
  \cup
  {[columns |-> <<KPassword>>, index |-> IndexOf(Len(r), FALSE), rows |-> r] :
     r \in UNION {[1..n -> {<<List(<<Str(<<"q">>)>>)>>, <<Null>>, <<Str(<<"p">>)>>}] :
                    n \in 1..2}}

Tables == NameTables \cup RowTables \cup OddTables

InitTable ==
  /\ pc = "ready"
  /\ op = "none"
  /\ api_response = <<>>
  /\ df \in Tables
  /\ ret = NoResult
  /\ hash_columns = <<>>
  /\ cracked_results = NoFrame
  /\ NoSearch
  /\ hash_file = NoFile
  /\ tool = <<>>

CallSanitizeColumnNames ==
  /\ pc = "ready"
  /\ pc' = "done"
  /\ op' = "_sanitize_column_names"
  /\ ret' = Ok(SanitizeColumnNames(df))
  /\ df' = SanitizeColumnNamesTable(df)
  /\ UNCHANGED <<api_response, hash_columns, cracked_results>>
  /\ UNCHANGED <<searchVars, crackVars>>

CallEnsureCommonColumns ==
  /\ pc = "ready"
  /\ pc' = "done"
  /\ op' = "_ensure_common_columns"
  /\ ret' = Ok(EnsureCommonColumns(df, CommonCols))
  /\ df' = EnsureCommonColumnsTable(df)
  /\ UNCHANGED <<api_response, hash_columns, cracked_results>>
  /\ UNCHANGED <<searchVars, crackVars>>

CallIntelligentCleanup ==
  /\ pc = "ready"
  /\ pc' = "done"
  /\ op' = "_intelligent_cleanup"
  /\ ret' = IntelligentCleanup(df)
  /\ df' = IntelligentCleanupTable(df)
  /\ UNCHANGED <<api_response, hash_columns, cracked_results>>
  /\ UNCHANGED <<searchVars, crackVars>>

CallDetectHashColumns ==
  /\ pc = "ready"
  /\ pc' = "done"
  /\ op' = "_detect_hash_columns"
  /\ ret' = OkCols(DetectHashColumns(df))
  /\ df' = DetectHashColumnsTable(df)
  /\ UNCHANGED <<api_response, hash_columns, cracked_results>>
  /\ UNCHANGED <<searchVars, crackVars>>

NextTable ==
  \/ CallSanitizeColumnNames
  \/ CallEnsureCommonColumns
  \/ CallIntelligentCleanup
  \/ CallDetectHashColumns

SpecTable == InitTable /\ [][NextTable]_vars

(***************************************************************************)
(* Tables for _detect_hash_columns: the columns of                         *)
(* test_hash_column_detection, names with a line break, and columns with   *)
(* a given number of hash-shaped and other values.                         *)
(***************************************************************************)
HMd5Hash == <<"m","d","5","_","h","a","s","h">>

HSha256Password == <<"S","H","A","2","5","6","_","p","a","s","s","w","o","r","d">>

HBcryptField == <<"b","c","r","y","p","t","_","f","i","e","l","d">>

HPbkdf2 == <<"p","b","k","d","f","2">>

HNtlm == <<"N","T","L","M">>

HScrypt == <<"s","c","r","y","p","t","_","k","e","y">>

HCrypt == <<"C","r","y","p","t">>

HLineHash == <<"a","\n","h","a","s","h">>

HHashLine == <<"h","a","s","h","\n","x">>

HFilm == <<"f","i","l","m">>

HRegular == <<"r","e","g","u","l","a","r","_","f","i","e","l","d">>

HToken == <<"t","o","k","e","n">>

HashNamePool ==
  {HMd5Hash, HSha256Password, HBcryptField, HPbkdf2, HNtlm, HScrypt,
   HCrypt, HLineHash, HHashLine, HFilm, HRegular, HToken}

VHex32 == Str(Rep("a", 32))

VText == Str(<<"n","/","a">>)

VBcrypt == Str(<<"$","2","a","$","1","0","$","x">>)

\* the cells of a column: none, text only, absent only, one digest
ContentPool ==
  {<<>>, <<VText, VText>>, <<VBcrypt>>, <<Null, Null>>, <<VHex32>>,
   <<Null, VText>>}

\* a table of one column with the given cells
OneColumn(column, cells) ==
  [columns |-> <<column>>,
   index |-> [i \in 1..Len(cells) |-> i - 1],
   rows |-> [i \in 1..Len(cells) |-> <<cells[i]>>]]

\* a table of two columns of the same length
TwoColumns(c1, cells1, c2, cells2) ==
  [columns |-> <<c1, c2>>,
   index |-> [i \in 1..Len(cells1) |-> i - 1],
   rows |-> [i \in 1..Len(cells1) |-> <<cells1[i], cells2[i]>>]]

\* h digests and o other values, the digests first or last, after `lead'
\* absent cells
Mixed(h, o, hexFirst, lead) ==
  [i \in 1..lead |-> Null] \o
  (IF hexFirst THEN Rep(VHex32, h) \o Rep(VText, o)
   ELSE Rep(VText, o) \o Rep(VHex32, h))

\* single values: digests of each length, upper case, near misses
ShapePool ==
  {Str(Rep("a", n)) : n \in {16, 31, 32, 33, 40, 56, 64, 96, 128}}
  \cup {Str(Rep("F", 32)), Str(Rep("g", 32)), Str(Rep("0", 40)),
        Str(Rep("a", 31) \o <<"\n">>), Str(Rep("a", 32) \o <<"\n">>),
        Str(Rep("a", 31) \o <<" ">>), Str(<<>>),
        List(<<Str(<<"q">>)>>)}

HashTables ==
  {OneColumn(c, v) : c \in HashNamePool, v \in ContentPool}
  \cup
  {TwoColumns(HRegular, <<VText, VHex32>>, c, <<VText, Null>>) :
     c \in HashNamePool \ {HRegular}}
  \cup
  {OneColumn(HRegular, Mixed(h, o, f, lead)) :
     h \in 0..MaxVals, o \in 0..MaxVals, f \in BOOLEAN, lead \in 0..1}
  \cup
  {OneColumn(HToken, <<v>>) : v \in ShapePool}

InitHash ==
  /\ pc = "ready"
  /\ op = "none"
  /\ api_response = <<>>
  /\ df \in {t \in HashTables : NRows(t) <= MaxVals + 1}
  /\ ret = NoResult
  /\ hash_columns = <<>>
  /\ cracked_results = NoFrame
  /\ NoSearch
  /\ hash_file = NoFile
  /\ tool = <<>>

NextHash == CallDetectHashColumns

SpecHash == InitHash /\ [][NextHash]_vars

(***************************************************************************)
(* _sanitize_column_names called on a table and then on the table it       *)
(* returned.                                                               *)
(***************************************************************************)
\* the second call: its argument, kept in df, is the result of the first
SanitizeAgain ==
  /\ pc = "done"
  /\ op = "_sanitize_column_names"
  /\ ret.tag = "ok"
  /\ pc' = "again"
  /\ df' = SanitizeColumnNamesTable(ret.df)
  /\ ret' = Ok(SanitizeColumnNames(ret.df))
  /\ UNCHANGED <<op, api_response, hash_columns, cracked_results>>
  /\ UNCHANGED <<searchVars, crackVars>>

NextSanitize == CallSanitizeColumnNames \/ SanitizeAgain

SpecSanitize == InitTable /\ [][NextSanitize]_vars

(***************************************************************************)
(* The classifier called once and called again on the same table.          *)
(***************************************************************************)
\* tables in which two columns have one name
DupTables ==
  {TwoColumns(c, v, c, w) :
     c \in {HMd5Hash, HRegular},
     v \in {<<VHex32, Null>>, <<VText, VText>>},
     w \in {<<VHex32, VHex32>>, <<Null, VText>>}}

InitClassify ==
  /\ pc = "ready"
  /\ op = "none"
  /\ api_response = <<>>
  /\ df \in {t \in HashTables : NRows(t) <= MaxVals + 1} \cup DupTables
  /\ ret = NoResult
  /\ hash_columns = <<>>
  /\ cracked_results = NoFrame
  /\ NoSearch
  /\ hash_file = NoFile
  /\ tool = <<>>

CallListHashColumns ==
  /\ pc = "ready"
  /\ pc' = "done"
  /\ op' = "list_hash_columns"
  /\ ret' = ListHashColumns(df)
  /\ df' = ListHashColumnsTable(df)
  /\ UNCHANGED <<api_response, hash_columns, cracked_results>>
  /\ UNCHANGED <<searchVars, crackVars>>

RepeatDetectHashColumns ==
  /\ pc = "done"
  /\ op = "_detect_hash_columns"
  /\ pc' = "again"
  /\ ret' = OkCols(DetectHashColumns(df))
  /\ df' = DetectHashColumnsTable(df)
  /\ UNCHANGED <<op, api_response, hash_columns, cracked_results>>
  /\ UNCHANGED <<searchVars, crackVars>>

RepeatListHashColumns ==
  /\ pc = "done"
  /\ op = "list_hash_columns"
  /\ pc' = "again"
  /\ ret' = ListHashColumns(df)
  /\ df' = ListHashColumnsTable(df)
  /\ UNCHANGED <<op, api_response, hash_columns, cracked_results>>
  /\ UNCHANGED <<searchVars, crackVars>>

NextClassify ==
  \/ CallDetectHashColumns
  \/ CallListHashColumns
  \/ RepeatDetectHashColumns
  \/ RepeatListHashColumns

SpecClassify == InitClassify /\ [][NextClassify]_vars

(***************************************************************************)
(* perform_api_search (main_v2.py): the search-and-report cycle, in the    *)
(* steps between its prompts and the run of the cracking tool.  pc is      *)
(* "extracted" with the table of the response in df, "classified" with the *)
(* hash columns in hash_columns, "cracked" with the result of the cracking *)
(* tool in cracked_results, "merged" after the join, "returned" when the   *)
(* function returned and "raised" when an exception left it.               *)
(***************************************************************************)
\* the return of perform_api_search
Returned(b) == [tag |-> b, df |-> EmptyDF, cols |-> <<>>, same |-> FALSE]

\* the debug output of lines 196-213: response.get('entries', []),
\* len(entries), entries[0].keys() and entry.keys() of the first entries;
\* "ok", or the exception raised
DebugPrints(response) ==
  IF ~HasKey(response, KEntries) THEN "ok"
  ELSE LET entries == Get(response, KEntries)
       IN  CASE entries.k \in {"null", "int"} -> "TypeError"
             [] entries.k = "str" ->
                  IF entries.s = <<>> THEN "ok" ELSE "AttributeError"
             [] entries.k = "dict" ->
                  IF entries.sub = <<>> THEN "ok" ELSE "KeyError"
             [] OTHER ->
                  IF \E i \in 1..Len(entries.sub) :
                       i <= 5 /\ entries.sub[i][2].k # "dict"
                    THEN "AttributeError"
                  ELSE "ok"

KHash == <<"h","a","s","h">>

KPlaintext == <<"p","l","a","i","n","t","e","x","t">>

KTool == <<"t","o","o","l">>

KDuration == <<"d","u","r","a","t","i","o","n">>

KPlaintextPassword == KPlaintext \o <<"_">> \o KPassword

Tools == {<<"h","a","s","h","c","a","t">>, <<"j","o","h","n">>}

\* parse_output(tool, hash_file, duration): the two example rows
ParseOutput(tool_name) ==
  [columns |-> <<KHash, KPlaintext, KTool, KDuration>>,
   index |-> <<0, 1>>,
   rows |-> << <<Str(<<"e","x","a","m","p","l","e","_","h","a","s","h","1">>), Str(<<"e","x","a","m","p","l","e","_","p","a","s","s","w","o","r","d","1">>),
                 Str(tool_name), Number(<<"1">>)>>,
               <<Str(<<"e","x","a","m","p","l","e","_","h","a","s","h","2">>), Str(<<"e","x","a","m","p","l","e","_","p","a","s","s","w","o","r","d","2">>),
                 Str(tool_name), Number(<<"1">>)>> >>]

\* Index.drop(label): the labels without label
IndexDrop(columns, label) == SelectSeq(columns, LAMBDA c : c # label)

\* the position of the first column of the name
ColumnAt(t, name) ==
  CHOOSE j \in 1..Len(t.columns) :
    t.columns[j] = name /\ \A h \in 1..(j - 1) : t.columns[h] # name

\* left.merge(right, on=on, how='left'): each row of left, once for each
\* row of right equal to it in the columns of on, or once with the other
\* columns of right absent
RECURSIVE MergeRows(_, _, _, _)
MergeRows(left, right, on, i) ==
  IF i > NRows(left) THEN <<>>
  ELSE LET other == SelectSeq([j \in 1..Len(right.columns) |-> j],
                              LAMBDA j : \A c \in 1..Len(on) : right.columns[j] # on[c])
           matches == SelectSeq([r \in 1..NRows(right) |-> r],
                                LAMBDA r : \A c \in 1..Len(on) :
                                  left.rows[i][ColumnAt(left, on[c])]
                                    = right.rows[r][ColumnAt(right, on[c])])
           joined == IF matches = <<>>
                       THEN << left.rows[i] \o [j \in 1..Len(other) |-> Null] >>
                     ELSE [m \in 1..Len(matches) |->
                             left.rows[i] \o
                             [j \in 1..Len(other) |-> right.rows[matches[m]][other[j]]]]
       IN  joined \o MergeRows(left, right, on, i + 1)

MergeLeft(left, right, on) ==
  LET rows == MergeRows(left, right, on, 1)
  IN  [columns |-> left.columns \o
                   SelectSeq(right.columns,
                             LAMBDA c : \A h \in 1..Len(on) : c # on[h]),
       index |-> [i \in 1..Len(rows) |-> i - 1],
       rows |-> rows]

\* df.merge(cracked_results,
\*          on=list(cracked_results.columns.drop('plaintext_password')),
\*          how='left') of line 355: Index.drop raises KeyError for a label
\* that is not in the index, merge raises KeyError for a key that is not a
\* column of both frames and MergeError without keys
MergeCracked(t, cracked) ==
  IF ~HasColumn(cracked, KPlaintextPassword) THEN Raise("KeyError")
  ELSE LET on == IndexDrop(cracked.columns, KPlaintextPassword)
       IN  IF on = <<>> THEN Raise("MergeError")
           ELSE IF \E c \in 1..Len(on) : ~HasColumn(t, on[c])
             THEN Raise("KeyError")
           ELSE Ok(MergeLeft(t, cracked, on))

\* records of a search: with a digest as the password, and with a digest in
\* a field of its own
RecHexPassword == Dict(<< <<KEmail, SA>>, <<KPassword, VHex32>> >>)

RecHashField ==
  Dict(<< <<KEmail, SB>>, <<KPassword, SQ>>, <<KHash, VHex32>> >>)

SearchPool ==
  {RecNested, RecHash, RecHexPassword, RecHashField, RecEmailOnly, Null}

\* most records of the response of a search
MaxSearch == 2

SearchResponses ==
  {<<>>,
   << <<KEntries, Str(<<"n","o","t","_","a","_","l","i","s","t">>)>> >>,
   << <<KEntries, Null>> >>,
   << <<KEntries, RecEmailOnly>> >>}
  \cup {<< <<KSuccess, Str(<<"1">>)>>, <<KEntries, List(b)>> >> :
          b \in UNION {[1..n -> SearchPool] : n \in 0..MaxSearch}}

InitSearch ==
  /\ pc = "ready"
  /\ op = "none"
  /\ api_response \in SearchResponses
  /\ df = EmptyDF
  /\ ret = NoResult
  /\ hash_columns = <<>>
  /\ cracked_results = NoFrame
  /\ NoSearch
  /\ hash_file = NoFile
  /\ tool = <<>>

\* lines 192-222: the response of search(), the debug output, the narrow
\* view of the response, and the return when it has no rows
SearchAndExtract ==
  /\ pc = "ready"
  /\ op' = "perform_api_search"
  /\ LET r == ExtractEmailPasswordData(api_response)
     IN  IF DebugPrints(api_response) # "ok"
           THEN /\ pc' = "raised"
                /\ ret' = Raise(DebugPrints(api_response))
                /\ df' = df
         ELSE IF r.tag # "ok"
           THEN /\ pc' = "raised"
                /\ ret' = r
                /\ df' = df
         ELSE IF NRows(r.df) = 0
           THEN /\ pc' = "returned"
                /\ ret' = Returned("False")
                /\ df' = r.df
         ELSE /\ pc' = "extracted"
              /\ ret' = ret
              /\ df' = r.df
  /\ api_response' = ExtractEmailPasswordDataResponse(api_response)
  /\ UNCHANGED <<hash_columns, cracked_results>>
  /\ UNCHANGED <<searchVars, crackVars>>

\* lines 222-322: the output directory or the CSV file cannot be written
SaveFails ==
  /\ pc = "extracted"
  /\ pc' = "returned"
  /\ ret' = [tag |-> "None", df |-> EmptyDF, cols |-> <<>>, same |-> FALSE]
  /\ UNCHANGED <<op, api_response, df, hash_columns, cracked_results>>
  /\ UNCHANGED <<searchVars, crackVars>>

\* lines 222-334: the table is saved and list_hash_columns(df) is asked for
\* the hash columns
SaveAndClassify ==
  /\ pc = "extracted"
  /\ LET r == ListHashColumns(df)
     IN  IF r.tag # "ok"
           THEN pc' = "raised" /\ ret' = r /\ hash_columns' = hash_columns
         ELSE pc' = "classified" /\ ret' = ret /\ hash_columns' = r.cols
  /\ df' = ListHashColumnsTable(df)
  /\ UNCHANGED <<op, api_response, cracked_results>>
  /\ UNCHANGED <<searchVars, crackVars>>

\* lines 336-390: no hash column, or the user declines, or
\* perform_hash_cracking returns None (no tool, cancelled, tool failed)
NoCracking ==
  /\ pc = "classified"
  /\ pc' = "returned"
  /\ ret' = Returned("True")
  /\ UNCHANGED <<op, api_response, df, hash_columns, cracked_results>>
  /\ UNCHANGED <<searchVars, crackVars>>

\* lines 349-353: the user confirms and perform_hash_cracking returns the
\* frame of parse_output
CrackHashes ==
  /\ pc = "classified"
  /\ hash_columns # <<>>
  /\ \E chosen \in Tools : cracked_results' = ParseOutput(chosen)
  /\ pc' = "cracked"
  /\ UNCHANGED <<op, api_response, df, hash_columns, ret>>
  /\ UNCHANGED <<searchVars, crackVars>>

\* line 355: df = df.merge(cracked_results, ...)
MergeCrackedResults ==
  /\ pc = "cracked"
  /\ LET r == MergeCracked(df, cracked_results)
     IN  IF r.tag # "ok"
           THEN pc' = "raised" /\ ret' = r /\ df' = df
         ELSE pc' = "merged" /\ ret' = ret /\ df' = r.df
  /\ UNCHANGED <<op, api_response, hash_columns, cracked_results>>
  /\ UNCHANGED <<searchVars, crackVars>>

NextSearch ==
  \/ SearchAndExtract
  \/ SaveFails
  \/ SaveAndClassify
  \/ NoCracking
  \/ CrackHashes
  \/ MergeCrackedResults

SpecSearch == InitSearch /\ [][NextSearch]_vars

(***************************************************************************)
(* perform_hash_cracking (main_v2.py), in the steps between its prompts    *)
(* and the run of the cracking tool.  hash_file is the temporary file:     *)
(* whether it is on disk, and its lines.  pc is "confirm" at the           *)
(* confirmation prompt and "returned" when the function returned.          *)
(***************************************************************************)
\* df[col].dropna().unique(): the non-absent values of the column, each
\* once, in the order of their first rows
UniqueHashes(t, col) ==
  LET j == ColumnAt(t, col)
      first == {i \in 1..NRows(t) :
                  /\ ~IsNA(t.rows[i][j])
                  /\ \A h \in 1..(i - 1) : t.rows[h][j] # t.rows[i][j]}
      order == Ascending(first)
  IN  [i \in 1..Len(order) |-> t.rows[order[i]][j]]

\* lines 543-549: the lines written to the temporary file
RECURSIVE HashLines(_, _)
HashLines(t, columns) ==
  IF columns = <<>> THEN <<>>
  ELSE LET unique_hashes == UniqueHashes(t, columns[1])
       IN  [i \in 1..Len(unique_hashes) |-> StrOf(unique_hashes[i]) \o <<"\n">>]
           \o HashLines(t, Tail(columns))

\* os.unlink(hash_file_path)
Unlink(file) == [file EXCEPT !.exists = FALSE]

InitCrack ==
  /\ pc = "ready"
  /\ op = "none"
  /\ api_response = <<>>
  /\ df \in {t \in HashTables :
               /\ NRows(t) <= 3
               /\ ListHashColumns(t).tag = "ok"
               /\ ListHashColumns(t).cols # <<>>}
  /\ ret = NoResult
  /\ hash_columns = ListHashColumns(df).cols
  /\ cracked_results = NoFrame
  /\ NoSearch
  /\ hash_file = NoFile
  /\ tool = <<>>

crackFrame == <<api_response, df, hash_columns, searchVars>>

\* lines 530-534: no cracking tool is installed
NoToolInstalled ==
  /\ pc = "ready"
  /\ pc' = "returned"
  /\ op' = "perform_hash_cracking"
  /\ ret' = [tag |-> "None", df |-> EmptyDF, cols |-> <<>>, same |-> FALSE]
  /\ UNCHANGED <<cracked_results, hash_file, tool>>
  /\ UNCHANGED crackFrame

\* lines 530-550: a tool is chosen and the hashes are written to the
\* temporary file, which stays on disk when it is closed (delete=False)
PrepareHashFile ==
  /\ pc = "ready"
  /\ pc' = "confirm"
  /\ op' = "perform_hash_cracking"
  /\ \E chosen \in Tools : tool' = chosen
  /\ hash_file' = [exists |-> TRUE, lines |-> HashLines(df, hash_columns)]
  /\ UNCHANGED <<ret, cracked_results>>
  /\ UNCHANGED crackFrame

\* lines 552-556: the user does not confirm
DeclineCracking ==
  /\ pc = "confirm"
  /\ pc' = "returned"
  /\ ret' = [tag |-> "None", df |-> EmptyDF, cols |-> <<>>, same |-> FALSE]
  /\ UNCHANGED <<op, cracked_results, hash_file, tool>>
  /\ UNCHANGED crackFrame

\* lines 558-574: the tool ends with a return code that is not 0
CrackingFails ==
  /\ pc = "confirm"
  /\ pc' = "returned"
  /\ ret' = [tag |-> "None", df |-> EmptyDF, cols |-> <<>>, same |-> FALSE]
  /\ UNCHANGED <<op, cracked_results, hash_file, tool>>
  /\ UNCHANGED crackFrame

\* lines 558-571: the tool ends with return code 0; its output is parsed,
\* the temporary file is removed and the parsed frame is returned
CrackingSucceeds ==
  /\ pc = "confirm"
  /\ pc' = "returned"
  /\ cracked_results' = ParseOutput(tool)
  /\ ret' = Ok(ParseOutput(tool))
  /\ hash_file' = Unlink(hash_file)
  /\ UNCHANGED <<op, tool>>
  /\ UNCHANGED crackFrame

NextCrack ==
  \/ NoToolInstalled
  \/ PrepareHashFile
  \/ DeclineCracking
  \/ CrackingFails
  \/ CrackingSucceeds

SpecCrack == InitCrack /\ [][NextCrack]_vars

(***************************************************************************)
(* extract_all_fields and its helpers, each called on a response or table. *)
(***************************************************************************)
InitPure ==
  /\ pc = "ready"
  /\ op = "none"
  /\ \/ api_response \in Responses /\ df = EmptyDF
     \/ api_response = <<>> /\ df \in Tables
  /\ ret = NoResult
  /\ hash_columns = <<>>
  /\ cracked_results = NoFrame
  /\ NoSearch
  /\ hash_file = NoFile
  /\ tool = <<>>

NextPure ==
  \/ CallExtractAllFields
  \/ CallSanitizeColumnNames
  \/ CallEnsureCommonColumns
  \/ CallIntelligentCleanup

SpecPure == InitPure /\ [][NextPure]_vars

(***************************************************************************)
(* search (dehashed.py).  One call: the payload is built, then each pass   *)
(* of the retry loop posts it and handles what comes back.  An HTTP        *)
(* response is a record                                                    *)
(*   [kind |-> "response", status |-> code, retry_after |-> header,        *)
(*    reset |-> header, body |-> body]                                     *)
(* a header is [present |-> BOOLEAN, value |-> characters] and a body is   *)
(* [valid |-> whether response.json() parses it, json |-> the value it     *)
(* parses to, text |-> response.text].  pc is "ready" before the call,     *)
(* "loop" at the test of the while loop and "done" after the call.         *)
(***************************************************************************)
\* most retries the caller allows
MaxRetries == 2

\* line 123
base_delay == 1

KDomainPrefix == <<"d","o","m","a","i","n",":">>

\* lines 107-110: formatted_query
FormatQuery(q) ==
  IF ~Contains(q, <<"@">>) /\ Contains(q, <<".">>)
    THEN KDomainPrefix \o q
    ELSE q

\* lines 112-116: payload
Payload(q) == [query |-> FormatQuery(q), size |-> 10000, page |-> 1]

Digits == <<"0","1","2","3","4","5","6","7","8","9">>

IsDigits(s) == \A i \in 1..Len(s) : \E d \in 1..10 : Digits[d] = s[i]

RECURSIVE DigitsValue(_)
DigitsValue(s) ==
  IF s = <<>> THEN 0
  ELSE DigitsValue(SubSeq(s, 1, Len(s) - 1)) * 10
       + (CHOOSE d \in 1..10 : Digits[d] = s[Len(s)]) - 1

\* int(s) of a string: surrounding whitespace, a sign and decimal digits;
\* ok is FALSE where int raises ValueError
ParseInt(s) ==
  LET body == Strip(s, Whitespace)
      signed == body # <<>> /\ body[1] \in {"+", "-"}
      digits == IF signed THEN Tail(body) ELSE body
  IN  IF digits = <<>> \/ ~IsDigits(digits)
        THEN [ok |-> FALSE, value |-> 0]
      ELSE [ok |-> TRUE,
            value |-> IF signed /\ body[1] = "-"
                        THEN 0 - DigitsValue(digits)
                        ELSE DigitsValue(digits)]

RECURSIVE Pow2(_)
Pow2(n) == IF n = 0 THEN 1 ELSE 2 * Pow2(n - 1)

\* lines 148 and 150: base_delay * (2 ** retry_count)
Backoff(count) == base_delay * Pow2(count)

\* a delay that ignores the Retry-After header
DelayBackoffOnly(r, count) == Backoff(count)

\* lines 142-150: delay
Delay(r, count) ==
  LET retry_after == r.retry_after
  IN  IF retry_after.present /\ retry_after.value # <<>>
        THEN IF ParseInt(retry_after.value).ok
               THEN ParseInt(retry_after.value).value
               ELSE Backoff(count)
      ELSE Backoff(count)

\* time.sleep(delay) raises ValueError for a negative delay
SleepRaises(delay) == delay < 0

\* lines 59-77 of extract_rate_limit_info, called at line 168: "ok", or the
\* exception of datetime.fromtimestamp that line 75 does not catch, raised
\* for an x-ratelimit-reset timestamp beyond the range of time_t (any number
\* of twenty digits or more)
ExtractRateLimitInfo(r) ==
  IF /\ r.reset.present
     /\ r.reset.value # <<>>
     /\ IsDigits(r.reset.value)
     /\ r.reset.value[1] # "0"
     /\ Len(r.reset.value) >= 20
    THEN "OverflowError"
  ELSE "ok"

\* what a call of search ended with
NoOutcome == [tag |-> "none"]

\* return at line 192
Return(value) == [tag |-> "return", value |-> value]

\* the end of the function is reached: None is returned
FallThrough == [tag |-> "fall_through", value |-> Null]

\* raise of DeHashedRateLimitError, line 137
RateLimitError == [tag |-> "raise", exc |-> "DeHashedRateLimitError"]

\* raise of DeHashedAPIError, line 211, with the status code and the detail
\* appended to error_message
ApiError(status, detail) ==
  [tag |-> "raise", exc |-> "DeHashedAPIError", status |-> status,
   detail |-> detail]

\* raise of DeHashedError at lines 194, 214 and 218, wrapping the cause
WrappedError(cause) ==
  [tag |-> "raise", exc |-> "DeHashedError", cause |-> cause]

\* issubclass(exc, DeHashedError)
IsDeHashedError(exc) ==
  exc \in {"DeHashedError", "DeHashedRateLimitError", "DeHashedAPIError"}

KMessage == <<"m","e","s","s","a","g","e">>

KError == <<"e","r","r","o","r">>

\* lines 197-211 and 215-218: what a response that is neither 429 nor 200
\* ends the call with
HandleOtherStatus(r) ==
  LET error_data == r.body.json
  IN  IF ~r.body.valid
        THEN ApiError(r.status,
                      IF Len(r.body.text) > 200
                        THEN SubSeq(r.body.text, 1, 200)
                        ELSE r.body.text)
      ELSE CASE error_data.k = "dict" ->
                  IF HasKey(error_data.sub, KMessage)
                    THEN ApiError(r.status, StrOf(Get(error_data.sub, KMessage)))
                  ELSE IF HasKey(error_data.sub, KError)
                    THEN ApiError(r.status, StrOf(Get(error_data.sub, KError)))
                  ELSE ApiError(r.status, <<>>)
             [] error_data.k = "list" ->
                  IF \E i \in 1..Len(error_data.sub) :
                       error_data.sub[i][2] \in {Str(KMessage), Str(KError)}
                    THEN WrappedError("TypeError")
                  ELSE ApiError(r.status, <<>>)
             [] error_data.k = "str" ->
                  IF Contains(error_data.s, KMessage)
                     \/ Contains(error_data.s, KError)
                    THEN WrappedError("TypeError")
                  ELSE ApiError(r.status, <<>>)
             [] OTHER -> WrappedError("TypeError")

\* lines 158-194 and 215-218: what a 200 response ends the call with
HandleSuccess(r) ==
  IF ExtractRateLimitInfo(r) # "ok"
    THEN WrappedError(ExtractRateLimitInfo(r))
  ELSE IF ~r.body.valid THEN WrappedError("JSONDecodeError")
  ELSE Return(r.body.json)

\* the queries of the calls
QExampleCom == <<"e","x","a","m","p","l","e",".","c","o","m">>

QTestAtExampleCom == <<"t","e","s","t","@","e","x","a","m","p","l","e",".","c","o","m">>

QJohn == <<"j","o","h","n">>

QDomainExampleCom == KDomainPrefix \o QExampleCom

Queries == {QExampleCom, QTestAtExampleCom, QJohn, QDomainExampleCom}

NoHeader == [present |-> FALSE, value |-> <<>>]

Header(value) == [present |-> TRUE, value |-> value]

\* the Retry-After headers of the 429 responses
RetryAfterHeaders ==
  {NoHeader, Header(<<>>), Header(<<"2">>), Header(<<"0">>),
   Header(<<" ","3"," ">>), Header(<<"s","o","o","n">>), Header(<<"-","1">>)}

\* the x-ratelimit-reset headers of the 200 responses
ResetHeaders ==
  {NoHeader, Header(<<"1","7","0","0","0","0","0","0","0","0">>), Header(Rep("9", 20))}

JsonBody(value) == [valid |-> TRUE, json |-> value, text |-> <<>>]

TextBody(text) == [valid |-> FALSE, json |-> Null, text |-> text]

VBadKey == Str(<<"b","a","d"," ","k","e","y">>)

VDenied == Str(<<"d","e","n","i","e","d">>)

\* the bodies of the 200 responses
SuccessBodies ==
  {JsonBody(Dict(<< <<KSuccess, Str(<<"1">>)>>, <<KEntries, List(<<>>)>> >>)),
   JsonBody(Dict(<<>>)), JsonBody(List(<<>>)), JsonBody(Null),
   TextBody(<<"<","h","t","m","l",">">>)}

\* the bodies of the responses that are neither 200 nor 429
ErrorBodies ==
  {JsonBody(Dict(<< <<KMessage, VBadKey>> >>)),
   JsonBody(Dict(<< <<KError, VDenied>> >>)),
   JsonBody(Dict(<< <<KError, VDenied>>, <<KMessage, VBadKey>> >>)),
   JsonBody(Dict(<<>>)), JsonBody(List(<<>>)), JsonBody(Null),
   JsonBody(Str(KError)), TextBody(<<"<","h","t","m","l",">">>), TextBody(<<>>)}

OtherStatuses == {401, 500}

HttpResponse(status, retry_after, reset, body) ==
  [kind |-> "response", status |-> status, retry_after |-> retry_after,
   reset |-> reset, body |-> body]

RateLimitResponses ==
  {HttpResponse(429, h, NoHeader, TextBody(<<>>)) : h \in RetryAfterHeaders}

SuccessResponses ==
  {HttpResponse(200, NoHeader, h, b) : h \in ResetHeaders, b \in SuccessBodies}

ErrorResponses ==
  {HttpResponse(s, NoHeader, NoHeader, b) : s \in OtherStatuses,
                                            b \in ErrorBodies}

\* requests.post raised a RequestException
ConnectionFailed ==
  [kind |-> "exception", status |-> 0, retry_after |-> NoHeader,
   reset |-> NoHeader, body |-> TextBody(<<>>)]

InitRequest ==
  /\ pc = "ready"
  /\ op = "none"
  /\ api_response = <<>>
  /\ df = EmptyDF
  /\ ret = NoResult
  /\ hash_columns = <<>>
  /\ cracked_results = NoFrame
  /\ query \in Queries
  /\ max_retries \in (0 - 1)..MaxRetries
  /\ payload = <<>>
  /\ retry_count = 0
  /\ http_response = <<>>
  /\ posts = <<>>
  /\ sleeps = <<>>
  /\ search_result = NoOutcome
  /\ hash_file = NoFile
  /\ tool = <<>>

requestFrame == <<api_response, df, ret, hash_columns, cracked_results,
                  crackVars, query, max_retries>>

\* lines 100-123: the payload and the locals of the loop
StartSearch ==
  /\ pc = "ready"
  /\ pc' = "loop"
  /\ op' = "search"
  /\ payload' = Payload(query)
  /\ retry_count' = 0
  /\ UNCHANGED <<http_response, posts, sleeps, search_result>>
  /\ UNCHANGED requestFrame

\* line 125: the loop ends without a return; the function returns None
LeaveLoop ==
  /\ pc = "loop"
  /\ ~(retry_count <= max_retries)
  /\ pc' = "done"
  /\ search_result' = FallThrough
  /\ UNCHANGED <<op, payload, retry_count, http_response, posts, sleeps>>
  /\ UNCHANGED requestFrame

\* lines 127-132 and 213-214: requests.post raises a RequestException
NetworkError ==
  /\ pc = "loop"
  /\ retry_count <= max_retries
  /\ pc' = "done"
  /\ posts' = Append(posts, payload)
  /\ http_response' = ConnectionFailed
  /\ search_result' = WrappedError("RequestException")
  /\ UNCHANGED <<op, payload, retry_count, sleeps>>
  /\ UNCHANGED requestFrame

\* lines 127-155: a 429 response
RateLimited ==
  /\ pc = "loop"
  /\ retry_count <= max_retries
  /\ posts' = Append(posts, payload)
  /\ \E r \in RateLimitResponses :
       /\ http_response' = r
       /\ IF retry_count >= max_retries
            THEN /\ pc' = "done"
                 /\ search_result' = RateLimitError
                 /\ UNCHANGED <<retry_count, sleeps>>
          ELSE IF SleepRaises(Delay(r, retry_count))
            THEN /\ pc' = "done"
                 /\ search_result' = WrappedError("ValueError")
                 /\ UNCHANGED <<retry_count, sleeps>>
          ELSE /\ pc' = "loop"
               /\ sleeps' = Append(sleeps, Delay(r, retry_count))
               /\ retry_count' = retry_count + 1
               /\ UNCHANGED search_result
  /\ UNCHANGED <<op, payload>>
  /\ UNCHANGED requestFrame

\* lines 127-133 and 158-194: a 200 response
Succeeded ==
  /\ pc = "loop"
  /\ retry_count <= max_retries
  /\ pc' = "done"
  /\ posts' = Append(posts, payload)
  /\ \E r \in SuccessResponses :
       /\ http_response' = r
       /\ search_result' = HandleSuccess(r)
  /\ UNCHANGED <<op, payload, retry_count, sleeps>>
  /\ UNCHANGED requestFrame

\* lines 127-133 and 196-211: a response that is neither 429 nor 200
Failed ==
  /\ pc = "loop"
  /\ retry_count <= max_retries
  /\ pc' = "done"
  /\ posts' = Append(posts, payload)
  /\ \E r \in ErrorResponses :
       /\ http_response' = r
       /\ search_result' = HandleOtherStatus(r)
  /\ UNCHANGED <<op, payload, retry_count, sleeps>>
  /\ UNCHANGED requestFrame

NextRequest ==
  \/ StartSearch
  \/ LeaveLoop
  \/ NetworkError
  \/ RateLimited
  \/ Succeeded
  \/ Failed

SpecRequest == InitRequest /\ [][NextRequest]_vars

(***************************************************************************)
(* Claims.                                                                 *)
(***************************************************************************)
Called(f) == pc = "done" /\ op = f

Extractors == {"extract_all_fields", "extract_email_password_data"}

\* C1: extract_all_fields and extract_email_password_data fail with
\* KeyError when the response has no 'entries' key and with ValueError when
\* 'entries' is present and is not a list; no table is returned in either
\* case.
C1_StructuralErrors ==
  (pc = "done" /\ op \in Extractors) =>
    /\ ~HasKey(api_response, KEntries) =>
         ret.tag = "KeyError" /\ ret.df = EmptyDF
    /\ (HasKey(api_response, KEntries)
        /\ Get(api_response, KEntries).k # "list") =>
         ret.tag = "ValueError" /\ ret.df = EmptyDF

C1_Witness ==
  /\ Called("extract_all_fields")
  /\ HasKey(api_response, KEntries)
  /\ Get(api_response, KEntries).k = "str"
  /\ ret.tag = "ValueError"

(***************************************************************************)
(* What a batch of records holds, stated on the records themselves.        *)
(***************************************************************************)
\* the <<key path, value>> pairs of the terminal values under a value
RECURSIVE Leaves(_, _)
Leaves(v, path) ==
  IF v.k = "dict"
    THEN UNION {Leaves(v.sub[i][2],
                       IF path = <<>> THEN v.sub[i][1]
                       ELSE path \o <<".">> \o v.sub[i][1]) :
                  i \in 1..Len(v.sub)}
    ELSE {<<path, v>>}

\* the terminal values of a record, each with its sanitized key path
SanLeaves(rec) ==
  IF rec.k # "dict" THEN {}
  ELSE {<<SanitizeName(leaf[1]), leaf[2]>> : leaf \in Leaves(rec, <<>>)}

\* the terminal values of each record of a batch
BatchLeaves(recs) == [k \in 1..Len(recs) |-> SanLeaves(recs[k])]

\* whether a record with these terminal values has one for the column
Populates(leaves, column) == \E leaf \in leaves : leaf[1] = column

\* the non-absent values of a record, by flattened key
Present(rec) ==
  LET flat == FlattenRecord(rec)
  IN  {flat[i] : i \in {h \in 1..Len(flat) : ~IsNA(flat[h][2])}}

\* the records of a response whose 'entries' is a list
Entries(response) == Items(Get(response, KEntries))

\* the result of extract_all_fields on a batch it returned a table for
Extracted ==
  /\ Called("extract_all_fields")
  /\ ret.tag = "ok"

\* C2: every key path of a terminal value of any record is, sanitized, a
\* column of the table extract_all_fields returns, at any depth; every row
\* has a cell for every column; every row is the row of one of the records:
\* its non-absent cells are values of that record at a path of the column's
\* name, so a column the record has no path for holds the absent marker.
C2_ColumnUnion ==
  Extracted =>
    LET t == ret.df
        leaves == BatchLeaves(Entries(api_response))
    IN  /\ \A k \in DOMAIN leaves : \A leaf \in leaves[k] : HasColumn(t, leaf[1])
        /\ Len(t.rows) = Len(t.index)
        /\ \A i \in 1..Len(t.rows) : Len(t.rows[i]) = Len(t.columns)
        /\ \A i \in 1..Len(t.rows) : \E k \in DOMAIN leaves :
             \A j \in 1..Len(t.columns) :
               \/ IsNA(t.rows[i][j])
               \/ <<t.columns[j], t.rows[i][j]>> \in leaves[k]

KMetaSrcBreach == <<"m","e","t","a","_","s","r","c","_","b","r","e","a","c","h">>

KNestedField == <<"n","e","s","t","e","d","_","f","i","e","l","d">>

\* a batch with a record nested three levels deep and a record that lacks
\* that path: both rows are returned
C2_Witness ==
  /\ Extracted
  /\ NRows(ret.df) = 2
  /\ \E k \in 1..Len(Entries(api_response)) : Entries(api_response)[k] = RecDeep
  /\ \E k \in 1..Len(Entries(api_response)) : Entries(api_response)[k] = RecNested
  /\ HasColumn(ret.df, KMetaSrcBreach)
  /\ HasColumn(ret.df, KNestedField)

\* C3: for a non-empty batch the returned table has every baseline column;
\* one that no record populated is absent in every row, and the values the
\* records hold for a baseline column are in that column.
C3_BaselineColumns ==
  (Extracted /\ Entries(api_response) # <<>>) =>
    LET t == ret.df
        leaves == BatchLeaves(Entries(api_response))
    IN  \A c \in 1..Len(CommonCols) :
          LET column == CommonCols[c]
          IN  /\ HasColumn(t, column)
              /\ (\A k \in DOMAIN leaves : ~Populates(leaves[k], column)) =>
                   \A i \in 1..NRows(t) : \A j \in Positions(t, column) :
                     IsNA(t.rows[i][j])
              /\ \A k \in DOMAIN leaves : \A leaf \in leaves[k] :
                   (leaf[1] = column /\ ~IsNA(leaf[2])) =>
                     \E i \in 1..NRows(t) : \E j \in Positions(t, column) :
                       t.rows[i][j] = leaf[2]

\* a batch that populates email and not phone
C3_Witness ==
  /\ Extracted
  /\ NRows(ret.df) >= 2
  /\ \E i \in 1..NRows(ret.df) : \E j \in Positions(ret.df, KEmail) :
       ret.df.rows[i][j] = Str(<<"a">>)
  /\ \A k \in 1..Len(Entries(api_response)) :
       ~Populates(SanLeaves(Entries(api_response)[k]), KPhone)
  /\ HasColumn(ret.df, KPhone)

\* C4: for an empty batch extract_all_fields returns a table with every
\* baseline column and no row.
C4_EmptyBatchBaseline ==
  (/\ Called("extract_all_fields")
   /\ HasKey(api_response, KEntries)
   /\ Get(api_response, KEntries) = List(<<>>)) =>
    /\ ret.tag = "ok"
    /\ NRows(ret.df) = 0
    /\ \A c \in 1..Len(CommonCols) : HasColumn(ret.df, CommonCols[c])

\* the non-absent values of each record of a batch
BatchPresent(recs) == [k \in 1..Len(recs) |-> Present(recs[k])]

\* the records with no non-absent value
AbsentRecords(present) == {i \in DOMAIN present : present[i] = {}}

\* the records that have a value and repeat an earlier record
RepeatedRecords(present) ==
  {i \in DOMAIN present :
     /\ present[i] # {}
     /\ \E h \in 1..(i - 1) : present[h] = present[i]}

\* C5: the returned table has one row for each of the n records, less the
\* records absent in every column, less the records that repeat an earlier
\* record; a record with an identifier and no secret keeps its row.
C5_RowCount ==
  Extracted =>
    LET recs == Entries(api_response)
        present == BatchPresent(recs)
    IN  /\ NRows(ret.df) + Cardinality(AbsentRecords(present))
             + Cardinality(RepeatedRecords(present)) = Len(recs)
        /\ (\E k \in 1..Len(recs) : recs[k] = RecEmailOnly) =>
             \E i \in 1..NRows(ret.df) : \E j \in Positions(ret.df, KEmail) :
               /\ ret.df.rows[i][j] = Str(<<"a">>)
               /\ \A m \in Positions(ret.df, KPassword) : IsNA(ret.df.rows[i][m])

\* a batch with an absent record and a repeated record
C5_Witness ==
  /\ Extracted
  /\ NRows(ret.df) = 1
  /\ Len(Entries(api_response)) = 3
  /\ Cardinality(AbsentRecords(BatchPresent(Entries(api_response)))) = 1
  /\ Cardinality(RepeatedRecords(BatchPresent(Entries(api_response)))) = 1

\* a row with a non-absent cell; the empty string is a value
HasValue(row) == \E j \in 1..Len(row) : ~IsNA(row[j])

\* what C6 says of the table _intelligent_cleanup returns for df
C6_Post ==
  LET out == ret.df
      first == Ascending({i \in 1..NRows(df) :
                            /\ HasValue(df.rows[i])
                            /\ \A h \in 1..(i - 1) : df.rows[h] # df.rows[i]})
  IN  /\ out.columns = df.columns
      /\ \A n \in 1..Len(out.rows) : HasValue(out.rows[n])
      /\ \A n, m \in 1..Len(out.rows) : out.rows[n] = out.rows[m] => n = m
      /\ out.rows = [n \in 1..Len(first) |-> df.rows[first[n]]]
      /\ out.index = [n \in 1..Len(out.rows) |-> n - 1]
      /\ \A i \in 1..NRows(df) :
           HasValue(df.rows[i]) => \E n \in 1..Len(out.rows) : out.rows[n] = df.rows[i]

\* C6 as claimed, of any table: after _intelligent_cleanup no row is absent
\* in every column, no two rows are equal, the rows are the first rows of
\* the groups of equal rows in input order, the index is 0..n-1 and no row
\* with a value is dropped.
C6_AnyTable ==
  (Called("_intelligent_cleanup") /\ ret.tag = "ok") => C6_Post

\* C6, of the tables that have at least one column: the same holds.
C6_TableWithColumns ==
  (Called("_intelligent_cleanup") /\ ret.tag = "ok" /\ df.columns # <<>>) =>
    C6_Post

\* five identical rows with gapped labels leave one row, labelled 0
C6_Witness ==
  /\ Called("_intelligent_cleanup")
  /\ ret.tag = "ok"
  /\ NRows(df) = 5
  /\ df.index[1] # 0
  /\ \A i \in 1..5 : df.rows[i] = <<Str(<<"a">>), Str(<<"p">>)>>
  /\ ret.df.rows = << <<Str(<<"a">>), Str(<<"p">>)>> >>
  /\ ret.df.index = <<0>>

Separators == {".", " ", "_"}

\* the maximal runs of characters of s that are no separator, in order
RECURSIVE WordsOf(_)
WordsOf(s) ==
  IF s = <<>> THEN <<>>
  ELSE IF s[1] \in Separators THEN WordsOf(Tail(s))
  ELSE LET n == CHOOSE m \in 1..Len(s) :
                  /\ \A h \in 1..m : s[h] \notin Separators
                  /\ m = Len(s) \/ s[m + 1] \in Separators
       IN  <<SubSeq(s, 1, n)>> \o WordsOf(SubSeq(s, n + 1, Len(s)))

KUserProfileName == <<"u","s","e","r","_","p","r","o","f","i","l","e","_","n","a","m","e">>

\* C7: _sanitize_column_names keeps the number and order of the columns and
\* gives each the name made of the words of the old name (its runs between
\* '.', ' ' and '_'), lowercased and joined by single '_': no '.', no space,
\* no '__', no upper-case letter, no '_' at either end; the names of
\* test_column_sanitization map as the test expects.
C7_Sanitized ==
  Called("_sanitize_column_names") =>
    LET old == df.columns
        new == ret.df.columns
    IN  /\ ret.tag = "ok"
        /\ Len(new) = Len(old)
        /\ ret.df.rows = df.rows
        /\ ret.df.index = df.index
        /\ \A j \in 1..Len(old) :
             /\ new[j] = JoinStr([w \in 1..Len(WordsOf(old[j])) |->
                                    Lower(WordsOf(old[j])[w])], <<"_">>)
             /\ \A h \in 1..Len(new[j]) :
                  new[j][h] \notin {".", " "} /\ ~IsUpper(new[j][h])
             /\ ~Contains(new[j], <<"_", "_">>)
             /\ new[j] # <<>> => new[j][1] # "_" /\ new[j][Len(new[j])] # "_"
             /\ old[j] = KDottedName => new[j] = KUserProfileName
             /\ old[j] = NEmailAddress => new[j] = <<"e","m","a","i","l","_","a","d","d","r","e","s","s">>
             /\ old[j] = NUpperCase => new[j] = <<"u","p","p","e","r","_","c","a","s","e">>
             /\ old[j] = NAddressInfo => new[j] = <<"a","d","d","r","e","s","s","_","i","n","f","o">>

C7_Witness ==
  /\ Called("_sanitize_column_names")
  /\ df.columns = <<NEmailAddress, NMixed>>
  /\ ret.df.columns = << <<"e","m","a","i","l","_","a","d","d","r","e","s","s">>, <<"a","_","b">> >>

\* C8: the column names of the table extract_all_fields returns are
\* pairwise distinct: two key paths that sanitize to one name share one
\* column.
C8_DistinctColumns ==
  Extracted =>
    \A i, j \in 1..Len(ret.df.columns) :
      ret.df.columns[i] = ret.df.columns[j] => i = j

\* the names C9 lists
C9Names ==
  {<<"h","a","s","h">>,
   <<"m","d","5">>,
   <<"s","h","a">>,
   <<"b","c","r","y","p","t">>,
   <<"s","c","r","y","p","t">>,
   <<"p","b","k","d","f","2">>,
   <<"n","t","l","m">>,
   <<"c","r","y","p","t">>}

\* the name contains one of them, whatever the case of its letters
ContainsHashName(column) == \E p \in C9Names : Contains(Lower(column), p)

InResult(column) == \E h \in 1..Len(ret.cols) : ret.cols[h] = column

\* C9: a column whose name contains 'hash', 'md5', 'sha', 'bcrypt',
\* 'scrypt', 'pbkdf2', 'ntlm' or 'crypt' in any case is in the result of
\* _detect_hash_columns, whatever its cells are.
C9_HashNameShortCircuit ==
  Called("_detect_hash_columns") =>
    \A j \in 1..Len(df.columns) :
      ContainsHashName(df.columns[j]) => InResult(df.columns[j])

\* a value made of hexadecimal characters only, of the length of a digest
HexOfDigestLength(value) ==
  /\ \A i \in 1..Len(value) : value[i] \in HexChars
  /\ Len(value) \in {32, 40, 56, 64, 96, 128}

\* C10: a column that no name pattern matches is in the result of
\* _detect_hash_columns if and only if, of its first up to 10 non-absent
\* values in row order, at least 70% are made of hexadecimal characters only
\* and have a length in {32, 40, 56, 64, 96, 128} (7 of 10 is enough, 6 of
\* 10 is not, a column without values is not classified, values after the
\* tenth do not count).
C10_ContentThreshold ==
  Called("_detect_hash_columns") =>
    \A j \in 1..Len(df.columns) :
      LET column == df.columns[j]
          present == Ascending({i \in 1..NRows(df) : ~IsNA(df.rows[i][j])})
          n == IF Len(present) < 10 THEN Len(present) ELSE 10
          shaped == {i \in 1..n : HexOfDigestLength(StrOf(df.rows[present[i]][j]))}
      IN  (~ContainsHashName(column) /\ ~NameMatches(column)) =>
            (InResult(column) <=> (n > 0 /\ Cardinality(shaped) * 10 >= n * 7))

\* column j of df has no non-absent value
AllAbsent(j) == \A i \in 1..NRows(df) : IsNA(df.rows[i][j])

\* C11: a column without any non-absent value is in the result of
\* _detect_hash_columns only when one of the name patterns matches its name;
\* the content check never classifies it.
C11_AbsentColumnByNameOnly ==
  Called("_detect_hash_columns") =>
    \A j \in 1..Len(df.columns) :
      (AllAbsent(j) /\ InResult(df.columns[j])) => NameMatches(df.columns[j])

\* a column of absent cells only, with rows, that no pattern matches, is
\* left out, and one that a pattern matches is returned
C11_Witness ==
  /\ Called("_detect_hash_columns")
  /\ NRows(df) = 2
  /\ \E j \in 1..Len(df.columns) :
       AllAbsent(j) /\ ~NameMatches(df.columns[j]) /\ ~InResult(df.columns[j])

Classifiers == {"_detect_hash_columns", "list_hash_columns"}

\* the names of a list of columns, as a set
NameSet(cols) == {cols[h] : h \in 1..Len(cols)}

MappingsOnly(response) ==
  /\ HasKey(response, KEntries)
  /\ Get(response, KEntries).k = "list"
  /\ \A i \in 1..Len(Entries(response)) : Entries(response)[i].k = "dict"

\* C13: on a response whose 'entries' is a list of mappings,
\* extract_all_fields returns a table and raises nothing, also when a
\* terminal value is a list, null or of an unexpected type; a list-valued
\* field has one column, and the row of its record holds the list as it was.
C13_ListLeavesGraceful ==
  (Called("extract_all_fields") /\ MappingsOnly(api_response)) =>
    /\ ret.tag = "ok"
    /\ LET leaves == BatchLeaves(Entries(api_response))
       IN  \A k \in DOMAIN leaves : \A leaf \in leaves[k] :
             leaf[2].k = "list" =>
               /\ Cardinality(Positions(ret.df, leaf[1])) = 1
               /\ \E i \in 1..NRows(ret.df) : \A j \in Positions(ret.df, leaf[1]) :
                    ret.df.rows[i][j] = leaf[2]

\* the response with the elements of 'entries' that are no mapping left out
MappingsOf(response) ==
  << <<KEntries,
       List(SelectSeq(Entries(response), LAMBDA e : e.k = "dict"))>> >>

\* C14: an element of 'entries' that is no mapping is skipped by
\* extract_all_fields and by extract_email_password_data: the call raises
\* nothing because of it and returns the rows it returns for the mappings
\* of the batch alone.
C14_NonMappingSkipped ==
  (/\ pc = "done"
   /\ op \in Extractors
   /\ HasKey(api_response, KEntries)
   /\ Get(api_response, KEntries).k = "list"
   /\ ~MappingsOnly(api_response)) =>
    LET alone == IF op = "extract_all_fields"
                   THEN ExtractAllFields(MappingsOf(api_response))
                 ELSE ExtractEmailPasswordData(MappingsOf(api_response))
    IN  alone.tag = "ok" =>
          /\ ret.tag = "ok"
          /\ ret.df.rows = alone.df.rows

(***************************************************************************)
(* What a record holds for the narrow view, stated on the record.          *)
(***************************************************************************)
Narrow == Called("extract_email_password_data") /\ ret.tag = "ok"

\* str(value) without the whitespace at its ends
Trimmed(v) == Strip(StrOf(v), Whitespace)

\* null, empty or whitespace only
Blank(v) == v.k = "null" \/ Trimmed(v) = <<>>

\* the values a record holds under a key: the value, or the elements of
\* the list
ValuesOf(rec, key) ==
  IF ~HasKey(rec.sub, key) THEN {}
  ELSE LET v == Get(rec.sub, key)
       IN  IF v.k = "list" THEN {Items(v)[i] : i \in 1..Len(v.sub)} ELSE {v}

\* the elements of a password list of the form 'identifier;secret'
SplitElements(rec) ==
  IF HasKey(rec.sub, KPassword) /\ Get(rec.sub, KPassword).k = "list"
    THEN {p \in ValuesOf(rec, KPassword) :
            p.k = "str" /\ Len(Split(p.s, ";")) = 2}
  ELSE {}

\* the (identifier, secret) row of such an element
SplitPair(p) ==
  <<Str(Strip(Split(p.s, ";")[1], Whitespace)),
    Str(Strip(Split(p.s, ";")[2], Whitespace))>>

\* the secrets of a record that are no 'identifier;secret' element
Secrets(rec) ==
  {s \in ValuesOf(rec, KPassword) :
     ~Blank(s) /\ (Get(rec.sub, KPassword).k = "list" => ~Contains(StrOf(s), <<";">>))}

Identifiers(rec) == {e \in ValuesOf(rec, KEmail) : ~Blank(e)}

\* the rows a record can account for: one of its identifiers with one of
\* its secrets, or an 'identifier;secret' element with both parts present
PairsOf(rec) ==
  {<<Str(Trimmed(e)), Str(Trimmed(s))>> : e \in Identifiers(rec), s \in Secrets(rec)}
  \cup {SplitPair(p) : p \in {q \in SplitElements(rec) :
                                 SplitPair(q)[1].s # <<>> /\ SplitPair(q)[2].s # <<>>}}

\* the first record of the batch that accounts for the row, 0 if none does
FirstSource(recs, row) ==
  IF \E k \in 1..Len(recs) : row \in PairsOf(recs[k])
    THEN CHOOSE k \in 1..Len(recs) :
           /\ row \in PairsOf(recs[k])
           /\ \A h \in 1..(k - 1) : row \notin PairsOf(recs[h])
  ELSE 0

\* C15: the narrow view has exactly the columns email and password, with
\* or without rows; each row holds an identifier and a secret that are
\* strings with a character left after trimming, and comes from an
\* identifier and a secret of a record that are not null, empty or
\* whitespace only (scalars or list elements), so a record without a secret
\* gives no row; no two rows are equal; rows are in the order of the
\* records they first come from and the index is 0..n-1.
C15_NarrowViewRows ==
  Narrow =>
    LET t == ret.df
        recs == Entries(api_response)
        src == [i \in 1..NRows(t) |-> FirstSource(recs, t.rows[i])]
    IN  /\ t.columns = <<KEmail, KPassword>>
        /\ \A i \in 1..NRows(t) :
             /\ t.rows[i][1].k = "str" /\ Strip(t.rows[i][1].s, Whitespace) # <<>>
             /\ t.rows[i][2].k = "str" /\ Strip(t.rows[i][2].s, Whitespace) # <<>>
             /\ src[i] # 0
        /\ \A i, h \in 1..NRows(t) : t.rows[i] = t.rows[h] => i = h
        /\ \A i, h \in 1..NRows(t) : i < h => src[i] <= src[h]
        /\ t.index = [i \in 1..NRows(t) |-> i - 1]

\* the identifier and the secret of the record are lists of one length
ParallelLists(rec) ==
  /\ HasKey(rec.sub, KEmail) /\ Get(rec.sub, KEmail).k = "list"
  /\ HasKey(rec.sub, KPassword) /\ Get(rec.sub, KPassword).k = "list"
  /\ Len(Get(rec.sub, KEmail).sub) = Len(Get(rec.sub, KPassword).sub)

\* the i-th identifier with the i-th secret
PositionalPairs(rec) ==
  LET emails == Items(Get(rec.sub, KEmail))
      passwords == Items(Get(rec.sub, KPassword))
  IN  {<<Str(Trimmed(emails[i])), Str(Trimmed(passwords[i]))>> :
         i \in {h \in 1..Len(emails) : ~Blank(emails[h]) /\ ~Blank(passwords[h])}}

\* C16: a record whose email and password are parallel lists gives the rows
\* (email[i], password[i]) and no row (email[i], password[j]) with i # j:
\* the rows of the narrow view of a batch of such records are the
\* positional pairs of the records.
C16_PositionalPairing ==
  LET recs == Entries(api_response)
  IN  (Narrow /\ \A k \in 1..Len(recs) : ParallelLists(recs[k])) =>
        {ret.df.rows[i] : i \in 1..NRows(ret.df)}
          = UNION {PositionalPairs(recs[k]) : k \in 1..Len(recs)}

\* the rows of the 'identifier;secret' elements of a record
SplitPairs(rec) ==
  {SplitPair(p) : p \in {q \in SplitElements(rec) :
                           SplitPair(q)[1].s # <<>> /\ SplitPair(q)[2].s # <<>>}}

KUserAtX == <<"u","s","e","r","@","x",".","c","o","m">>

KSecretPw == <<"s","e","c","r","e","t","p","w">>

\* C17: each element 'identifier;secret' of a password list has its row
\* (identifier, secret) in the narrow view, both parts trimmed; a batch of
\* records that hold only such lists gives exactly these rows, one for each
\* distinct pair; the record with password ['user@x.com;secretpw'] gives the
\* one row ('user@x.com', 'secretpw').
C17_SplitElements ==
  Narrow =>
    LET recs == Entries(api_response)
        rows == {ret.df.rows[i] : i \in 1..NRows(ret.df)}
        split == UNION {SplitPairs(recs[k]) : k \in 1..Len(recs)}
    IN  /\ split \subseteq rows
        /\ (\A k \in 1..Len(recs) : ~HasKey(recs[k].sub, KEmail)) =>
             rows = split /\ NRows(ret.df) = Cardinality(split)
        /\ recs = << Dict(<< <<KPassword, List(<<SUserSecret>>)>> >>) >> =>
             ret.df.rows = << <<Str(KUserAtX), Str(KSecretPw)>> >>

\* the record of the example next to one with an untrimmed element
C17_Witness ==
  /\ Narrow
  /\ Len(Entries(api_response)) = 2
  /\ Entries(api_response)[1] = Dict(<< <<KPassword, List(<<SUserSecret>>)>> >>)
  /\ SplitPairs(Entries(api_response)[2]) = {<<SA, SQ>>}
  /\ ret.df.rows = << <<Str(KUserAtX), Str(KSecretPw)>>, <<SA, SQ>>, <<SB, SP>> >>

Normalizers ==
  {"extract_all_fields", "_sanitize_column_names", "_ensure_common_columns",
   "_intelligent_cleanup"}

Searching(at) == op = "perform_api_search" /\ pc = at

\* C18: when the cracking step has returned its result, perform_api_search
\* joins it onto the table without error: the joined table is a new value of
\* df that has every row of the table before the join, together with a
\* column for the recovered plaintext that is absent where no hash matched.
C18_CrackedJoin ==
  [][ (op = "perform_api_search" /\ pc = "cracked") =>
        /\ pc' = "merged"
        /\ \E c \in 1..Len(df'.columns) : ~HasColumn(df, df'.columns[c])
        /\ \A i \in 1..NRows(df) : \E h \in 1..NRows(df') :
             SubSeq(df'.rows[h], 1, Len(df.columns)) = df.rows[i] ]_vars

\* C19: in a cycle of perform_api_search the table handed to the hash
\* classifier is the flat table of all fields of the records of the
\* response: every key path of a record is one of its columns, and a field
\* with a hash name ('hash', 'md5_hash', ...) is among the hash columns that
\* go on to cracking.
C19_ClassifierSeesAllFields ==
  Searching("classified") =>
    LET leaves == BatchLeaves(Entries(api_response))
    IN  \A k \in DOMAIN leaves : \A leaf \in leaves[k] :
          /\ HasColumn(df, leaf[1])
          /\ NameMatches(leaf[1]) =>
               \E h \in 1..Len(hash_columns) : hash_columns[h] = leaf[1]

(***************************************************************************)
(* The retry loop of search.                                               *)
(***************************************************************************)
\* the call of search is at the given place
InSearch(at) == op = "search" /\ pc = at

\* C21: for max_retries >= 0 search makes at most max_retries + 1 requests;
\* every 429 response received with retries left is followed by exactly one
\* sleep and the loop goes on to one further request; a 429 response
\* received when the retries are used up raises DeHashedRateLimitError
\* without a sleep; a 200 response ends the loop and the parsed body is
\* returned.
C21_RetryLoop ==
  (op = "search" /\ max_retries >= 0) =>
    /\ Len(posts) <= max_retries + 1
    /\ pc = "loop" =>
         /\ Len(sleeps) = Len(posts)
         /\ retry_count = Len(posts)
         /\ retry_count <= max_retries
    /\ (pc = "done" /\ http_response.status = 429) =>
         /\ search_result = RateLimitError
         /\ Len(posts) = max_retries + 1
         /\ Len(sleeps) = max_retries
    /\ (pc = "done" /\ http_response.status = 200 /\ http_response.body.valid) =>
         search_result = Return(http_response.body.json)

\* the 'message' text of a body that parses to a mapping, else its 'error'
\* text, as it reads in an error message
BodyText(body) ==
  IF HasKey(body.json.sub, KMessage)
    THEN StrOf(Get(body.json.sub, KMessage))
    ELSE StrOf(Get(body.json.sub, KError))

HasBodyText(body) ==
  /\ body.valid
  /\ body.json.k = "dict"
  /\ HasKey(body.json.sub, KMessage) \/ HasKey(body.json.sub, KError)

\* C22: a response whose status is neither 200 nor 429 ends the call on that
\* attempt with DeHashedAPIError, whose message has the status code and the
\* 'message' or 'error' text of the body; nothing is slept for it and no
\* further request is made.
C22_OtherStatusRaises ==
  (InSearch("done") /\ posts # <<>> /\ http_response.kind = "response"
     /\ http_response.status \notin {200, 429}) =>
    /\ search_result.tag = "raise"
    /\ search_result.exc = "DeHashedAPIError"
    /\ search_result.status = http_response.status
    /\ HasBodyText(http_response.body) =>
         search_result.detail = BodyText(http_response.body)
    /\ Len(sleeps) = Len(posts) - 1

(***************************************************************************)
(* Whitespace in column names.                                             *)
(***************************************************************************)
\* C23: _sanitize_column_names turns every whitespace character of a name
\* (space, tab, newline) into the separator '_' like the space, so no name
\* of the table it returns has a whitespace character.
C23_NoWhitespaceLeft ==
  (Called("_sanitize_column_names") /\ ret.tag = "ok") =>
    /\ Len(ret.df.columns) = Len(df.columns)
    /\ \A j \in 1..Len(ret.df.columns) :
         /\ ret.df.columns[j] =
              SanitizeName([h \in 1..Len(df.columns[j]) |->
                              IF df.columns[j][h] \in Whitespace
                                THEN "_" ELSE df.columns[j][h]])
         /\ \A h \in 1..Len(ret.df.columns[j]) :
              ret.df.columns[j][h] \notin Whitespace

(***************************************************************************)
(* The names the classifier matches.                                       *)
(***************************************************************************)
\* fewer than 70% of the sampled values of column j of df are hash-shaped
PlaintextLooking(j) ==
  LET present == Ascending({i \in 1..NRows(df) : ~IsNA(df.rows[i][j])})
      n == IF Len(present) < 10 THEN Len(present) ELSE 10
      shaped == {i \in 1..n : HexOfDigestLength(StrOf(df.rows[present[i]][j]))}
  IN  Cardinality(shaped) * 10 < n * 7

\* C24: a column is classified by its name exactly when the name contains,
\* in any case, 'hash', 'md5', 'sha', 'bcrypt', 'scrypt', 'pbkdf2', 'ntlm' or
\* 'crypt': such a column is in the result of _detect_hash_columns, and a
\* column whose name contains none of them ('film') and whose sampled values
\* look like plaintext is not.
C24_NameMatchExact ==
  Called("_detect_hash_columns") =>
    \A j \in 1..Len(df.columns) :
      IF ContainsHashName(df.columns[j])
        THEN InResult(df.columns[j])
        ELSE PlaintextLooking(j) => ~InResult(df.columns[j])

(***************************************************************************)
(* The delays of the retries.                                              *)
(***************************************************************************)
\* the seconds to wait after the k-th 429 response r, k counted from 0: the
\* Retry-After header when it is a decimal integer, or 2^k
ExpectedDelay(r, k) ==
  LET h == r.retry_after
      text == Strip(h.value, Whitespace)
      digits == IF text # <<>> /\ text[1] \in {"+", "-"} THEN Tail(text) ELSE text
      isInteger == h.present /\ digits # <<>> /\ IsDigits(digits)
  IN  IF isInteger
        THEN IF text[1] = "-" THEN 0 - DigitsValue(digits)
             ELSE DigitsValue(digits)
      ELSE Pow2(k)

\* C25: when the loop goes on after the k-th 429 response of a call (k from
\* 0), exactly one delay was slept for it: the Retry-After value in seconds
\* when the header is present and an integer, else base_delay * 2^k = 2^k
\* seconds; every request after the first comes after one sleep for each
\* 429 response before it.
C25_RetryDelay ==
  [][ (op = "search" /\ Len(posts') = Len(posts) + 1) =>
        /\ Len(sleeps) = Len(posts)
        /\ (http_response'.kind = "response" /\ http_response'.status = 429
              /\ pc' = "loop") =>
             /\ retry_count = Len(posts)
             /\ sleeps' = Append(sleeps, ExpectedDelay(http_response', Len(posts)))
        /\ pc' # "loop" => sleeps' = sleeps ]_vars

\* a first 429 response with Retry-After: ' 3 ', a second without the
\* header, and the loop about to post again
C25_Witness ==
  /\ InSearch("loop")
  /\ Len(posts) = 2
  /\ sleeps = <<3, 2>>
  /\ http_response.status = 429
  /\ ~http_response.retry_after.present

(***************************************************************************)
(* The payload of the requests.                                            *)
(***************************************************************************)
\* C26: every request of a call of search carries the caller's query string,
\* unchanged, as the 'query' field of its payload ('example.com' is sent as
\* 'example.com').
C26_QueryUnchanged ==
  op = "search" =>
    /\ \A i \in 1..Len(posts) : posts[i].query = query
    /\ (query = QExampleCom /\ posts # <<>>) => posts[1].query = QExampleCom

(***************************************************************************)
(* The ways a call of search ends.                                         *)
(***************************************************************************)
\* C27: whatever max_retries is (negative too) and whatever the requests
\* come back with, a call of search ends either with the return of the
\* parsed body of a 200 response, after at least one request, or with an
\* exception of the class DeHashedError or of a subclass; it never ends by
\* leaving the loop and returning None.
C27_ReturnsBodyOrRaises ==
  InSearch("done") =>
    /\ search_result.tag # "fall_through"
    /\ \/ /\ search_result.tag = "return"
          /\ posts # <<>>
          /\ http_response.kind = "response"
          /\ http_response.status = 200
          /\ search_result.value = http_response.body.json
       \/ /\ search_result.tag = "raise"
          /\ IsDeHashedError(search_result.exc)

(***************************************************************************)
(* The temporary file of perform_hash_cracking.                            *)
(***************************************************************************)
\* C28: whenever perform_hash_cracking has returned, the temporary file of
\* the hashes is not on disk: it was never created, or it was deleted on the
\* way out, whether the user declined, the tool failed or the tool
\* succeeded.
C28_TempFileDeleted ==
  (op = "perform_hash_cracking" /\ pc = "returned") => ~hash_file.exists

(***************************************************************************)
(* The ';' in the secrets of the narrow view.                              *)
(***************************************************************************)
\* the identifiers of a record that the pairing loop does not skip
EmailsOf(rec) == {e \in ValuesOf(rec, KEmail) : Truthy(e)}

NonBlankRow(row) == row[1].s # <<>> /\ row[2].s # <<>>

\* C29: in the narrow view of a single record whose password is a list, an
\* element with a ';' is never paired with the email of the record: it
\* gives the row (part 1, part 2) when it splits into two parts, and no row
\* when it splits into three or more, whatever the email; a password that
\* is one string is not split and is paired whole with the email.
C29_SemicolonElements ==
  LET recs == Entries(api_response)
      rec == recs[1]
      rows == {ret.df.rows[i] : i \in 1..NRows(ret.df)}
      password == Get(rec.sub, KPassword)
      elements == ValuesOf(rec, KPassword)
      withSemicolon == {p \in elements : Contains(StrOf(p), <<";">>)}
      paired(ps) == {r \in {<<Str(Trimmed(e)), Str(Trimmed(p))>> :
                              e \in EmailsOf(rec), p \in ps} : NonBlankRow(r)}
  IN  (Narrow /\ Len(recs) = 1 /\ HasKey(rec.sub, KPassword)) =>
        /\ password.k = "list" =>
             /\ \A p \in withSemicolon :
                  /\ \A e \in EmailsOf(rec) :
                       <<Str(Trimmed(e)), Str(Trimmed(p))>> \notin rows
                  /\ (Len(Split(StrOf(p), ";")) = 2 /\ NonBlankRow(SplitPair(p))) =>
                       SplitPair(p) \in rows
             /\ rows = paired(elements \ withSemicolon)
                       \cup {r \in {SplitPair(p) :
                                      p \in {q \in withSemicolon :
                                               Len(Split(StrOf(q), ";")) = 2}} :
                               NonBlankRow(r)}
        /\ (password.k = "str" /\ HasKey(rec.sub, KEmail)) =>
             rows = paired({password})

\* the record with the email 'a' and the password ['a;b;c'] gives no row
C29_Witness ==
  /\ Narrow
  /\ Entries(api_response) =
       << Dict(<< <<KEmail, SA>>, <<KPassword, List(<<SThreeParts>>)>> >>) >>
  /\ NRows(ret.df) = 0

(***************************************************************************)
(* Sanitizing sanitized names.                                             *)
(***************************************************************************)
\* C30: _sanitize_column_names applied to a table it returned gives every
\* column the name it already has, and the rows and the index stay.
C30_SanitizeIdempotent ==
  (pc = "again" /\ op = "_sanitize_column_names") =>
    /\ ret.tag = "ok"
    /\ ret.df.columns = df.columns
    /\ ret.df = df

\* the second pass over the names of ' Lead' and 'a. _B'
C30_Witness ==
  /\ pc = "again"
  /\ op = "_sanitize_column_names"
  /\ df.columns = << <<"l","e","a","d">>, <<"a","_","b">> >>
  /\ ret.df.columns = df.columns

====
